---- MODULE Spec2Model ----
(***************************************************************************)
(* aRez: the session-authenticated request transport (arez/endpoint.py)    *)
(* and the per-language data cache in front of it.                         *)
(*                                                                         *)
(* Endpoint.request is a coroutine: it runs without interruption between   *)
(* two awaits (the lock acquisition, the HTTP exchange, the backoff sleep) *)
(* and other tasks of the event loop run only at those points.  Every      *)
(* caller owns two frames: depth 0 is its own call of request(), depth 1   *)
(* the recursive request("createsession") made under the session lock.     *)
(***************************************************************************)
EXTENDS Integers, Sequences, FiniteSets, TLC

\* ---------------------------------------------------------------- bounds
NCallers == 2        \* concurrent tasks calling Endpoint.request
MaxCalls == 1        \* calls each task makes, one after the other
MaxFaults == 2       \* upstream answers other than "ok" in a behaviour of SpecRace
MaxTime == 3         \* the clock stops after this many ticks
MaxSessions == 3     \* session ids the upstream hands out
TickMinutes == 5     \* minutes per clock tick

\* ------------------------------------------------------ program constants
SESSION_LIFETIME == 15   \* minutes
MaxTries == 5            \* for tries in range(5)

Callers == 1..NCallers
Depths == {0, 1}
Frames == Callers \X Depths

Methods == {"ping", "createsession", "getplayer"}

\* What the upstream can answer to one HTTP request.
\*   ok       a payload without an error message (a session id for createsession)
\*   nosid    createsession only: a payload without a session id
\*   invalid  ret_msg == "Invalid session id."
\*   limit    ret_msg == "Daily request limit reached"
\*   s503     HTTP status 503
\*   httperr  any other HTTP error status (aiohttp.ClientResponseError)
\*   connerr  aiohttp.ClientConnectionError
\*   timeout  asyncio.TimeoutError
\*   other    any other exception (undecodable body, ...)
Outcomes ==
    {"ok", "nosid", "invalid", "limit", "s503", "httperr", "connerr", "timeout", "other"}

VARIABLES
    now,              \* the wall clock, in minutes
    session_key,      \* Endpoint._session_key (0 is the empty string)
    session_expires,  \* Endpoint._session_expires, in minutes
    session_lock,     \* the task holding Endpoint._session_lock, 0 when free
    waiters,          \* the FIFO queue of tasks waiting for the lock
    issued,           \* the number of session ids the upstream has handed out
    renewals,         \* the createsession calls the session step has made
    faults,           \* the upstream answers other than "ok" so far, counted up to
                      \* MaxFaults
    key_time,         \* the time read by the session check that stored session_key
    checked_at,       \* the time read by the latest session check that completed
    calls,            \* calls[c]: the calls task c has started
    frame             \* frame[c, d]: the activation record of a request() call

session == <<session_key, session_expires, key_time, checked_at>>
lock == <<session_lock, waiters>>
upstream == <<issued, faults>>

endpoint_vars == <<now, session, lock, upstream, renewals, calls, frame>>

\* The state of the data cache (DataCache).
VARIABLES
    clock,            \* the wall clock of the cache, in hours
    cache_enabled,    \* DataCache.cache_enabled
    entries,          \* DataCache._cache: language -> entry
    fetches,          \* fetches[l]: upstream fetches started for language l
    refetched,        \* refetched[l]: those started by calls without force_refresh
    clean,            \* every fetch so far returned data and was stored
    lang_lock,        \* lang_lock[l]: the task holding the lock of l, 0 when free
    lang_waiters,     \* lang_waiters[l]: the tasks queued for the lock of l
    lookups,          \* the calls of get_champion_info started so far
    task              \* task[t]: the activation record of get_champion_info

cache_vars ==
    <<clock, cache_enabled, entries, fetches, refetched, clean, lang_lock, lang_waiters,
      lookups, task>>

\* The index over a collection of one cache entry (arez/utils.py, Lookup).
\* Objects live in a heap and are known by their position in it: two
\* references are the same instance when they are the same position.
VARIABLES
    objs,             \* the heap: the elements added and the CacheObjects made
    list_lookup,      \* _LookupBase._list_lookup: the elements in order
    id_lookup,        \* _LookupBase._id_lookup: id -> element
    name_lookup,      \* _LookupBase._name_lookup: lowercase name -> element
    cached_id_lookup,     \* _LookupBase._cached_id_lookup: id -> CacheObject
    cached_name_lookup,   \* _LookupBase._cached_name_lookup: lowercase name -> CacheObject
    co_calls,         \* the _cache_object calls made: arguments and object returned
    answer            \* the latest query and what it returned

primary == <<list_lookup, id_lookup, name_lookup>>
shadow == <<cached_id_lookup, cached_name_lookup>>

lookup_vars == <<objs, primary, shadow, co_calls, answer>>

\* The server status and the task that watches it (PaladinsAPI in
\* arez/api.py).  Time is counted in minutes.
VARIABLES
    status_now,       \* datetime.now(), in minutes
    server_status,    \* PaladinsAPI._server_status
    status_lock,      \* PaladinsAPI._locks["server_status"]: holder and waiters
    monitor,          \* the _status_loop task and its latest tick
    asker,            \* another task calling get_server_status
    dispatched        \* the callback tasks created so far

status_vars == <<status_now, server_status, status_lock, monitor, asker, dispatched>>

\* The callback tasks the monitor created are numbered 1..dispatched.
VARIABLES
    callback_ended    \* the callback tasks that ended, and how: <<number, outcome>>

callback_vars == <<callback_ended>>

\* register_status_callback and the tasks it creates for _status_loop.
VARIABLES
    status_task,      \* PaladinsAPI._status_task: the number of a task, or NoTask
    loop_tasks,       \* the tasks created for _status_loop, in order
    status_callback,  \* PaladinsAPI._status_callback
    status_intervals, \* PaladinsAPI._status_intervals
    registered        \* the latest register_status_callback call and what it raised

register_vars == <<status_task, loop_tasks, status_callback, status_intervals, registered>>

\* Tasks that call get_server_status side by side.
VARIABLES
    callers,          \* each task's call: where it is and what it got
    status_fetches    \* the fetches begun: each sends the upstream requests

ask_vars == <<callers, status_fetches>>

\* One call of get_matches or get_players.
VARIABLES
    batch             \* the call: its input, the requests sent, its result

batch_vars == <<batch>>

\* The components added to the model after the status monitor.
more_vars == <<callback_vars, register_vars, ask_vars, batch_vars>>

\* The awaits of one Expandable object (PartialPlayer in arez/player.py,
\* PartialMatch in arez/match.py).
VARIABLES
    partial,          \* the object: its class, id and private flag
    awaits            \* the awaits of it, in order: what each sent and gave

expand_vars == <<partial, awaits>>

\* One call of get_matches_for_queue, or of _date_gen alone.
VARIABLES
    queue_call        \* the call: its times, the windows, the matches yielded

queue_vars == <<queue_call>>

\* One enum class (arez/enums.py) and the attempts to change it.
VARIABLES
    enum_class,       \* the class: its member attributes and its mappings
    enum_op,          \* the latest attempt and what it raised
    enum_ops          \* the attempts made

enum_vars == <<enum_class, enum_op, enum_ops>>

\* One call of get_bounty.
VARIABLES
    bounty            \* the call: the response and the two lists returned

bounty_vars == <<bounty>>

VARIABLES
    locks,            \* PaladinsAPI._locks: the lock stored under each key, or 0
    lock_objs,        \* the locks the factory has made or will make
    locks_made,       \* how many it has made
    weak_task         \* each task: where it is, its key and the lock it refers to

weak_vars == <<locks, lock_objs, locks_made, weak_task>>

\* The components added last.
late_vars == <<expand_vars, queue_vars, enum_vars, bounty_vars, weak_vars>>

vars == <<endpoint_vars, cache_vars, lookup_vars, status_vars, more_vars, late_vars>>

\* What the steps of one component leave alone.
beyond_endpoint == <<cache_vars, lookup_vars, status_vars, more_vars, late_vars>>
beyond_cache == <<endpoint_vars, lookup_vars, status_vars, more_vars, late_vars>>
beyond_lookup == <<endpoint_vars, cache_vars, status_vars, more_vars, late_vars>>
beyond_status == <<endpoint_vars, cache_vars, lookup_vars, more_vars, late_vars>>
beyond_callback ==
    <<endpoint_vars, cache_vars, lookup_vars, register_vars, ask_vars, batch_vars,
      late_vars>>
beyond_register ==
    <<endpoint_vars, cache_vars, lookup_vars, status_vars, callback_vars, ask_vars, batch_vars,
      late_vars>>
beyond_ask ==
    <<endpoint_vars, cache_vars, lookup_vars, callback_vars, register_vars, batch_vars,
      late_vars>>
beyond_batch ==
    <<endpoint_vars, cache_vars, lookup_vars, status_vars, callback_vars, register_vars, ask_vars,
      late_vars>>

early_vars == <<endpoint_vars, cache_vars, lookup_vars, status_vars, more_vars>>
beyond_expand == <<early_vars, queue_vars, enum_vars, bounty_vars, weak_vars>>
beyond_queue == <<early_vars, expand_vars, enum_vars, bounty_vars, weak_vars>>
beyond_enum == <<early_vars, expand_vars, queue_vars, bounty_vars, weak_vars>>
beyond_bounty == <<early_vars, expand_vars, queue_vars, enum_vars, weak_vars>>
beyond_weak == <<early_vars, expand_vars, queue_vars, enum_vars, bounty_vars>>

\* A request() activation that is not running.
IdleFrame ==
    [ method   |-> "none",   \* method_name
      pc       |-> "idle",
      tries    |-> 0,        \* the loop variable
      last_exc |-> "none",   \* last_exc
      at       |-> 0,        \* the local `now` read under the lock
      token    |-> 0,        \* the session token in the URL of the request in flight
      delay    |-> 0,        \* base of the last backoff sleep, in half seconds
      sent     |-> 0,        \* HTTP requests sent for method_name
      sleeps   |-> 0,        \* backoff sleeps completed
      invalids |-> 0,        \* invalid-session responses received
      bad      |-> 0,        \* the session token of the request that the last
                             \* invalid-session response answered
      stale    |-> FALSE,    \* the session check of this attempt read a time at or
                             \* past the stored expiry
      created  |-> 0,        \* the session id this attempt's createsession returned
      last     |-> "none",   \* the last upstream outcome received
      ret      |-> "none",   \* the response returned
      sid      |-> 0,        \* the session id in the response returned
      exc      |-> "none",   \* the exception raised
      cause    |-> "none" ]  \* HTTPException.cause

\* A task is between two awaits while one of its frames is at a point where the
\* coroutine continues without suspending.
Running(c) ==
    \/ frame[c, 0].pc \in {"attempt", "check"}
    \/ frame[c, 1].pc \in {"attempt", "returned", "raised"}

\* The event loop runs one task at a time: c may take a step only when no other
\* task is between two awaits.
CanRun(c) == \A d \in Callers \ {c} : ~Running(d)

\* A session check that lets the instant of expiry pass as still valid.
SessionExpiredLate(t, expires) == t > expires

\* endpoint.py:372   now >= self._session_expires
SessionExpired(t, expires) == t >= expires

\* A session step that only ping goes without.
NeedsSessionButPing(m) == m # "ping"

\* endpoint.py:356-369   ping, createsession (and testsession with a session
\* argument) build their URL without the session step
NeedsSession(m) == m \notin {"ping", "createsession"}

EndpointInit ==
    /\ now = 0
    /\ session_key = 0
    /\ session_expires = 0
    /\ session_lock = 0
    /\ waiters = <<>>
    /\ issued = 0
    /\ renewals = 0
    /\ faults = 0
    /\ key_time = 0
    /\ checked_at = 0 - SESSION_LIFETIME
    /\ calls = [c \in Callers |-> 0]
    /\ frame = [f \in Frames |-> IdleFrame]

\* Time passes while every task is suspended.
Tick ==
    /\ \A c \in Callers : ~Running(c)
    /\ now + TickMinutes <= MaxTime * TickMinutes
    /\ now' = now + TickMinutes
    /\ UNCHANGED beyond_endpoint
    /\ UNCHANGED <<session, lock, upstream, renewals, calls, frame>>

\* ------------------------------------------------- steps of one activation

\* endpoint.py:393   the URL is complete and the HTTP request goes out.
Sent(fr, tok) == [fr EXCEPT !.pc = "http", !.token = tok, !.sent = @ + 1]

\* An exception leaves request().
Raised(fr, e, why) == [fr EXCEPT !.pc = "raised", !.exc = e, !.cause = why]

\* endpoint.py:422   return res_data
Returned(fr, o, s) == [fr EXCEPT !.pc = "returned", !.ret = o, !.sid = s]

\* A loop that runs one iteration too many.
NextTrySix(fr) ==
    IF fr.tries + 1 <= MaxTries
    THEN [fr EXCEPT !.tries = @ + 1, !.pc = "attempt"]
    ELSE Raised(fr, "HTTPException", fr.last_exc)

\* endpoint.py:352, 460-463   the next iteration of the loop, or the fail-safe
\* raise once the five iterations are used up.
NextTry(fr) ==
    IF fr.tries + 1 < MaxTries
    THEN [fr EXCEPT !.tries = @ + 1, !.pc = "attempt"]
    ELSE Raised(fr, "HTTPException", fr.last_exc)

\* A backoff that does not scale with the attempt.
BackoffFlat(fr) == 1

\* endpoint.py:458   the base of the backoff sleep, in half seconds: tries * 0.5
Backoff(fr) == fr.tries

\* A connection problem retried at once, without the sleep.
FailedNoSleep(fr, o) == NextTry([fr EXCEPT !.last_exc = o])

\* endpoint.py:425-435, 458   a connection problem is stored and slept on.
Failed(fr, o) == [fr EXCEPT !.last_exc = o, !.pc = "sleep", !.delay = Backoff(fr)]

\* endpoint.py:412-417   an invalid-session response goes on with the loop.
Invalidated(fr) == NextTry([fr EXCEPT !.invalids = @ + 1])

\* An invalid-session response that leaves the stored expiry alone.
ExpireNever == session_expires

\* endpoint.py:416   self._session_expires = datetime.datetime.now(datetime.UTC)
ExpireNow == now

\* A 503 handled like a connection problem.
FatalRetried(fr, o) ==
    CASE o = "s503" -> [fr EXCEPT !.last_exc = o, !.pc = "sleep", !.delay = fr.tries]
      [] o = "limit" -> Raised(fr, "LimitReached", "none")
      [] o = "httperr" -> Raised(fr, "HTTPException", "httperr")
      [] o = "other" -> Raised(fr, "HTTPException", "other")

\* endpoint.py:397-401, 418-420, 436-455   the outcomes that end the call.
Fatal(fr, o) ==
    CASE o = "s503" -> Raised(fr, "Unavailable", "none")
      [] o = "limit" -> Raised(fr, "LimitReached", "none")
      [] o = "httperr" -> Raised(fr, "HTTPException", "httperr")
      [] o = "other" -> Raised(fr, "HTTPException", "other")

\* A session step that takes any answer of createsession for a session.
HasSessionIdAlways(s) == TRUE

\* endpoint.py:375   if not session_id
HasSessionId(s) == s # 0

\* endpoint.py:378   self._session_expires = now + SESSION_LIFETIME
Renewed(t) == t + SESSION_LIFETIME

\* A task calls request(m): the loop starts with tries = 0.
Call(c, m) ==
    /\ CanRun(c)
    /\ frame[c, 0].pc \in {"idle", "returned", "raised"}
    /\ calls[c] < MaxCalls
    /\ calls' = [calls EXCEPT ![c] = @ + 1]
    /\ frame' = [frame EXCEPT ![c, 0] = [IdleFrame EXCEPT !.method = m, !.pc = "attempt"]]
    /\ UNCHANGED beyond_endpoint
    /\ UNCHANGED <<now, session, lock, upstream, renewals>>

\* endpoint.py:355-368, 389-395   ping and createsession: no session step.
Send(c, d) ==
    /\ frame[c, d].pc = "attempt"
    /\ ~NeedsSession(frame[c, d].method)
    /\ frame' = [frame EXCEPT ![c, d] = Sent(@, 0)]
    /\ UNCHANGED beyond_endpoint
    /\ UNCHANGED <<now, session, lock, upstream, renewals, calls>>

\* A lock that never makes anybody wait.
LockFreeAlways == TRUE

\* asyncio.Lock.acquire: the lock is taken at once when it is free and nobody
\* is queued for it.
LockFree == session_lock = 0 /\ waiters = <<>>

\* endpoint.py:370   async with self._session_lock, the lock being free.
Acquire(c) ==
    /\ frame[c, 0].pc = "attempt"
    /\ NeedsSession(frame[c, 0].method)
    /\ LockFree
    /\ session_lock' = c
    /\ frame' = [frame EXCEPT ![c, 0].pc = "check"]
    /\ UNCHANGED beyond_endpoint
    /\ UNCHANGED <<now, session, waiters, upstream, renewals, calls>>

\* endpoint.py:370   async with self._session_lock, the lock being taken: the
\* task queues up and is suspended.
Enqueue(c) ==
    /\ frame[c, 0].pc = "attempt"
    /\ NeedsSession(frame[c, 0].method)
    /\ ~LockFree
    /\ waiters' = Append(waiters, c)
    /\ frame' = [frame EXCEPT ![c, 0].pc = "wait"]
    /\ UNCHANGED beyond_endpoint
    /\ UNCHANGED <<now, session, session_lock, upstream, renewals, calls>>

\* asyncio.Lock: a release wakes the first task of the queue, which then holds
\* the lock.
Grant(c) ==
    /\ CanRun(c)
    /\ frame[c, 0].pc = "wait"
    /\ session_lock = 0
    /\ waiters # <<>>
    /\ Head(waiters) = c
    /\ session_lock' = c
    /\ waiters' = Tail(waiters)
    /\ frame' = [frame EXCEPT ![c, 0].pc = "check"]
    /\ UNCHANGED beyond_endpoint
    /\ UNCHANGED <<now, session, upstream, renewals, calls>>

\* endpoint.py:371-373   the session has expired: request("createsession") is
\* called with the lock held.
CheckExpired(c) ==
    /\ frame[c, 0].pc = "check"
    /\ SessionExpired(now, session_expires)
    /\ renewals' = renewals + 1
    /\ frame' = [frame EXCEPT
                   ![c, 0] = [@ EXCEPT !.pc = "creating", !.at = now, !.created = 0,
                                       !.stale = (now >= session_expires)],
                   ![c, 1] = [IdleFrame EXCEPT !.method = "createsession", !.pc = "attempt"]]
    /\ UNCHANGED beyond_endpoint
    /\ UNCHANGED <<now, session, lock, upstream, calls>>

\* endpoint.py:371-395   the session is still good: its expiry moves to
\* now + SESSION_LIFETIME, the lock is released and the signed request goes out.
CheckFresh(c) ==
    /\ frame[c, 0].pc = "check"
    /\ ~SessionExpired(now, session_expires)
    /\ session_expires' = Renewed(now)
    /\ checked_at' = now
    /\ session_lock' = 0
    /\ frame' = [frame EXCEPT
                   ![c, 0] = Sent([@ EXCEPT !.created = 0,
                                            !.stale = (now >= session_expires)],
                                  session_key)]
    /\ UNCHANGED beyond_endpoint
    /\ UNCHANGED <<now, session_key, key_time, waiters, upstream, renewals, calls>>

\* endpoint.py:374-395   createsession returned a session id: it is stored, the
\* expiry is set from the time read before the call, the lock is released and
\* the signed request goes out.
CreatedOK(c) ==
    /\ frame[c, 0].pc = "creating"
    /\ frame[c, 1].pc = "returned"
    /\ HasSessionId(frame[c, 1].sid)
    /\ session_key' = frame[c, 1].sid
    /\ session_expires' = Renewed(frame[c, 0].at)
    /\ key_time' = frame[c, 0].at
    /\ checked_at' = frame[c, 0].at
    /\ session_lock' = 0
    /\ frame' = [frame EXCEPT
                   ![c, 0] = Sent([@ EXCEPT !.created = frame[c, 1].sid, !.at = 0],
                                  session_key'),
                   ![c, 1] = IdleFrame]
    /\ UNCHANGED beyond_endpoint
    /\ UNCHANGED <<now, waiters, upstream, renewals, calls>>

\* endpoint.py:374-376, 441-451   createsession returned no session id:
\* Unauthorized leaves the lock block and the call.
CreatedNoId(c) ==
    /\ frame[c, 0].pc = "creating"
    /\ frame[c, 1].pc = "returned"
    /\ ~HasSessionId(frame[c, 1].sid)
    /\ session_lock' = 0
    /\ frame' = [frame EXCEPT
                   ![c, 0] = Raised([@ EXCEPT !.at = 0], "Unauthorized", "none"),
                   ![c, 1] = IdleFrame]
    /\ UNCHANGED beyond_endpoint
    /\ UNCHANGED <<now, session, waiters, upstream, renewals, calls>>

\* endpoint.py:373, 441-451   createsession raised: the exception leaves the
\* lock block and is raised again by the caller's own handler.
CreateRaised(c) ==
    /\ frame[c, 0].pc = "creating"
    /\ frame[c, 1].pc = "raised"
    /\ session_lock' = 0
    /\ frame' = [frame EXCEPT
                   ![c, 0] = Raised([@ EXCEPT !.at = 0], frame[c, 1].exc, frame[c, 1].cause),
                   ![c, 1] = IdleFrame]
    /\ UNCHANGED beyond_endpoint
    /\ UNCHANGED <<now, session, waiters, upstream, renewals, calls>>

\* ------------------------------------------------------ the HTTP exchange

InFlight(c, d) == CanRun(c) /\ frame[c, d].pc = "http"

\* The upstream answers with an error or not at all; a limited upstream does
\* so MaxFaults times at most.
Fault(limited) ==
    /\ limited => faults < MaxFaults
    /\ faults' = IF faults < MaxFaults THEN faults + 1 ELSE faults
    /\ issued' = issued

\* endpoint.py:402-422   a payload without a handled error message is returned;
\* the payload of createsession carries a new session id.
RespondOK(c, d) ==
    /\ InFlight(c, d)
    /\ IF frame[c, d].method = "createsession"
       THEN /\ issued < MaxSessions
            /\ issued' = issued + 1
            /\ frame' = [frame EXCEPT
                           ![c, d] = Returned([@ EXCEPT !.last = "ok"], "ok", issued + 1)]
       ELSE /\ issued' = issued
            /\ frame' = [frame EXCEPT ![c, d] = Returned([@ EXCEPT !.last = "ok"], "ok", 0)]
    /\ UNCHANGED beyond_endpoint
    /\ UNCHANGED <<now, session, lock, faults, renewals, calls>>

\* endpoint.py:402-422   createsession answers without a session id: the
\* payload is returned like any other.
RespondNoId(c, d, limited) ==
    /\ InFlight(c, d)
    /\ frame[c, d].method = "createsession"
    /\ Fault(limited)
    /\ frame' = [frame EXCEPT ![c, d] = Returned([@ EXCEPT !.last = "nosid"], "nosid", 0)]
    /\ UNCHANGED beyond_endpoint
    /\ UNCHANGED <<now, session, lock, renewals, calls>>

\* endpoint.py:412-417   "Invalid session id.": the session is expired on the
\* spot and the loop goes on.
RespondInvalid(c, d, limited) ==
    /\ InFlight(c, d)
    /\ Fault(limited)
    /\ session_expires' = ExpireNow
    /\ frame' = [frame EXCEPT ![c, d] = Invalidated([@ EXCEPT !.last = "invalid",
                                                              !.bad = frame[c, d].token])]
    /\ UNCHANGED beyond_endpoint
    /\ UNCHANGED <<now, session_key, key_time, checked_at, lock, renewals, calls>>

\* endpoint.py:425-435, 458   a connection error or a timeout: sleep, then retry.
RespondFailed(c, d, o, limited) ==
    /\ InFlight(c, d)
    /\ o \in {"connerr", "timeout"}
    /\ Fault(limited)
    /\ frame' = [frame EXCEPT ![c, d] = Failed([@ EXCEPT !.last = o], o)]
    /\ UNCHANGED beyond_endpoint
    /\ UNCHANGED <<now, session, lock, renewals, calls>>

\* endpoint.py:397-401, 418-420, 436-455   503, the daily limit, another HTTP
\* error status or an unexpected exception: the call ends.
RespondFatal(c, d, o, limited) ==
    /\ InFlight(c, d)
    /\ o \in {"s503", "limit", "httperr", "other"}
    /\ Fault(limited)
    /\ frame' = [frame EXCEPT ![c, d] = Fatal([@ EXCEPT !.last = o], o)]
    /\ UNCHANGED beyond_endpoint
    /\ UNCHANGED <<now, session, lock, renewals, calls>>

\* endpoint.py:458-463   the backoff sleep is over.
WakeUp(c, d) ==
    /\ CanRun(c)
    /\ frame[c, d].pc = "sleep"
    /\ frame' = [frame EXCEPT ![c, d] = NextTry([@ EXCEPT !.sleeps = @ + 1])]
    /\ UNCHANGED beyond_endpoint
    /\ UNCHANGED <<now, session, lock, upstream, renewals, calls>>

\* The steps of the tasks T against an upstream that is limited in its faults
\* or not.
Step(T, limited) ==
    \/ Tick
    \/ \E c \in T, m \in Methods : Call(c, m)
    \/ \E c \in T, d \in Depths : Send(c, d)
    \/ \E c \in T : Acquire(c)
    \/ \E c \in T : CheckExpired(c)
    \/ \E c \in T : CheckFresh(c)
    \/ \E c \in T : CreatedOK(c)
    \/ \E c \in T : CreatedNoId(c)
    \/ \E c \in T : CreateRaised(c)
    \/ \E c \in T, d \in Depths : RespondOK(c, d)
    \/ \E c \in T, d \in Depths : RespondNoId(c, d, limited)
    \/ \E c \in T, d \in Depths : RespondInvalid(c, d, limited)
    \/ \E c \in T, d \in Depths, o \in Outcomes : RespondFailed(c, d, o, limited)
    \/ \E c \in T, d \in Depths, o \in Outcomes : RespondFatal(c, d, o, limited)
    \/ \E c \in T, d \in Depths : WakeUp(c, d)

\* ------------------------------------------------------------ data cache
\* DataCache._fetch_entry lives in arez/cache.py, which is not part of the
\* sources at hand: its steps follow the design document (section 4.3) and
\* the documentation of get_champion_info, and its lock is used the way
\* get_server_status uses the lock of the same lock map (api.py:165).

\* bounds
NTasks == 2          \* concurrent tasks calling get_champion_info
MaxLookups == 3      \* calls they make between them
MaxClock == 3        \* the cache clock stops after this many ticks
TickHours == 6       \* hours per tick of the cache clock

\* api.py:358   "the information returned is cached once every 12 hours"
REFRESH_EVERY == 12

Tasks == 1..NTasks
Languages == {"English", "Polish"}
DefaultLanguage == "English"

\* No entry: DataCache._cache.get(language) is None.
NoEntry == [ver |-> 0, fetched |-> 0]

\* An entry that was not fetched: its lookups hold nothing. _fetch_entry hands
\* one out when the cache is disabled and no entry is stored (design, section
\* 4.3: new constructions use the CacheObject fallback exclusively;
\* test_misc.py:418-454 builds its objects in that state).
BlankEntry == [ver |-> 0 - 1, fetched |-> 0]

\* endpoint.py:376, 399, 420, 439-463   what a request raises when it fails.
RequestExceptions == {"Unauthorized", "Unavailable", "LimitReached", "HTTPException"}

\* api.py:797-803   what getmatchdetails brings: records of which one at least
\* has a playerId other than 0 ("data"), records of private players only, whose
\* playerId is 0 ("private"), nothing, or an exception of the request.
MatchOutcomes == {"data", "private", "empty"} \cup RequestExceptions

\* match.py:487-489, bounty.py:54-56   what building an object from records
\* raises: the champions of the entry are looked up, which None has not.
Building(has_entry) == IF has_entry THEN "none" ELSE "AttributeError"

IdleTask ==
    [ pc            |-> "idle",
      force_refresh |-> FALSE,     \* the force_refresh argument of get_champion_info
      req           |-> [language |-> "None", force_refresh |-> FALSE, cache |-> "None"],
                                   \* the arguments _fetch_entry receives
      at            |-> 0,         \* the time read under the lock
      entry         |-> NoEntry,   \* the entry read under the lock
      queued        |-> FALSE,     \* the task had to wait for the lock
      result        |-> NoEntry,   \* the entry returned
      got           |-> "none",    \* what the fetch brought: "data" or "nothing"
      expand_players |-> FALSE,    \* the expand_players argument of get_match
      op            |-> "info",    \* the caller: get_champion_info or "match", an
                                   \* operation that builds an object from the entry
      enabled       |-> TRUE,      \* cache_enabled when the call was made
      had           |-> NoEntry,   \* the entry stored when the call was made
      known         |-> FALSE,     \* the ChampionId of the record received is one
                                   \* of the champions the entries fetched hold
      champion      |-> "none",    \* the kind of champion the object built carries
      exc           |-> "none" ]   \* the exception raised

CacheInit ==
    /\ clock = 0
    /\ cache_enabled = TRUE
    /\ entries = [l \in Languages |-> NoEntry]
    /\ fetches = [l \in Languages |-> 0]
    /\ refetched = [l \in Languages |-> 0]
    /\ clean = TRUE
    /\ lang_lock = [l \in Languages |-> 0]
    /\ lang_waiters = [l \in Languages |-> <<>>]
    /\ lookups = 0
    /\ task = [t \in Tasks |-> IdleTask]

\* The task is between two awaits: it holds the lock and has not yet decided.
Deciding(t) == task[t].pc = "locked"

MayRun(t) == \A u \in Tasks \ {t} : ~Deciding(u)

\* A call that asks for a refresh whatever the caller passed.
FetchEntryForced(language, force_refresh, cache) ==
    [ language      |-> IF language = "None" THEN DefaultLanguage ELSE language,
      force_refresh |-> TRUE,
      cache         |-> cache ]

\* api.py:393-396   the default language stands in for None, and the other
\* arguments are handed on to _fetch_entry.
FetchEntryCall(language, force_refresh, cache) ==
    [ language      |-> IF language = "None" THEN DefaultLanguage ELSE language,
      force_refresh |-> force_refresh,
      cache         |-> cache ]

\* A get_champion_info that returns whatever _fetch_entry gave it.
ChampionInfoNoRaise(tk, e) ==
    [tk EXCEPT !.pc = "done", !.result = e, !.exc = "none"]

\* api.py:397-399   no entry: NotFound.
ChampionInfo(tk, e) ==
    IF e = NoEntry
    THEN [tk EXCEPT !.pc = "done", !.result = NoEntry, !.exc = "NotFound"]
    ELSE [tk EXCEPT !.pc = "done", !.result = e, !.exc = "none"]

\* utils.py:355-400   the champions of the entry hold the ChampionId of the
\* record: the entry was fetched and the id is one of those fetched.
Holds(e, known) == e.ver >= 1 /\ known

\* match.py:487-489, bounty.py:54-56   cache_entry.champions._cache_object(id,
\* name): the Champion of the entry if its lookup holds the id, a CacheObject
\* made of the id and the name otherwise; None has no champions.
ChampionOf(e, known) ==
    IF e = NoEntry THEN "AttributeError"
    ELSE IF Holds(e, known) THEN "Champion" ELSE "CacheObject"

\* api.py:795-797   _fetch_entry has returned: get_champion_info returns the
\* entry or raises NotFound, get_match goes on to await its request with the
\* entry in hand.
Built(tk, e) ==
    IF tk.op = "match"
    THEN [tk EXCEPT !.pc = "request", !.result = e]
    ELSE ChampionInfo(tk, e)

\* api.py:797-803   the request has ended: its exception passes on, an empty
\* response raises NotFound, records with a playerId other than 0 have
\* get_match await _get_players when expand_players is set, and the object is
\* built from the records and the entry otherwise.
MatchBuilt(tk, o, known) ==
    IF o = "empty" THEN [tk EXCEPT !.pc = "done", !.exc = "NotFound"]
    ELSE IF o \in RequestExceptions THEN [tk EXCEPT !.pc = "done", !.exc = o]
    ELSE IF o = "data" /\ tk.expand_players
         THEN [tk EXCEPT !.pc = "players", !.known = known]
    ELSE IF ChampionOf(tk.result, known) = "AttributeError"
         THEN [tk EXCEPT !.pc = "done", !.known = known, !.exc = "AttributeError"]
         ELSE [tk EXCEPT !.pc = "done", !.known = known, !.exc = "none",
                         !.champion = ChampionOf(tk.result, known)]

\* A disabled cache that still hands out the entry stored before it was
\* disabled.
ServedStored(r, e) ==
    IF e = NoEntry /\ r.cache = "None" /\ ~cache_enabled THEN BlankEntry ELSE e

\* What _fetch_entry returns without a fetch (design, sections 3 and 4.3): the
\* stored entry while the cache is enabled; while it is disabled a blank one,
\* whatever is stored, so that the objects built use the CacheObject fallback
\* exclusively.
Served(r, e) ==
    IF r.cache = "None" /\ ~cache_enabled THEN BlankEntry ELSE e

\* The fetched entry is stored (design, section 3: with the cache disabled no
\* entries are stored); with the cache enabled every entry is stored but the
\* one of a call that passes cache=False (api.py:375).
Stores(cache) == cache_enabled /\ cache # "False"

\* An entry is served for 12 hours from the time of its fetch.
EntryFresh(e, t) == e # NoEntry /\ t < e.fetched + REFRESH_EVERY

\* The stored entry is returned without a fetch: it is fresh and no refresh is
\* forced, or the cache is disabled and the caller did not ask for an entry to
\* be cached.
ServedFromCache(r, e, t) ==
    \/ r.cache = "None" /\ ~cache_enabled
    \/ ~r.force_refresh /\ EntryFresh(e, t)

LangOf(t) == task[t].req.language

\* Time passes while no task is between two awaits.
CacheTick ==
    /\ \A t \in Tasks : ~Deciding(t)
    /\ clock + TickHours <= MaxClock * TickHours
    /\ clock' = clock + TickHours
    /\ UNCHANGED beyond_cache
    /\ UNCHANGED <<lookups, cache_enabled, entries, fetches, refetched, clean, lang_lock,
                   lang_waiters, task>>

\* api.py:389-396   get_champion_info is called: _fetch_entry takes the lock of
\* the language, or queues for it.
GetChampionInfo(t, language, force_refresh, cache) ==
    LET r == FetchEntryCall(language, force_refresh, cache)
        l == r.language
        free == lang_lock[l] = 0 /\ lang_waiters[l] = <<>>
        tk == [IdleTask EXCEPT !.force_refresh = force_refresh, !.req = r,
                               !.enabled = cache_enabled, !.had = entries[l]]
    IN  /\ MayRun(t)
        /\ task[t].pc \in {"idle", "done"}
        /\ lookups < MaxLookups
        /\ lookups' = lookups + 1
        /\ IF free
           THEN /\ lang_lock' = [lang_lock EXCEPT ![l] = t]
                /\ lang_waiters' = lang_waiters
                /\ task' = [task EXCEPT ![t] = [tk EXCEPT !.pc = "locked"]]
           ELSE /\ lang_lock' = lang_lock
                /\ lang_waiters' = [lang_waiters EXCEPT ![l] = Append(@, t)]
                /\ task' = [task EXCEPT ![t] = [tk EXCEPT !.pc = "wait", !.queued = TRUE]]
        /\ UNCHANGED beyond_cache
        /\ UNCHANGED <<clock, cache_enabled, entries, fetches, refetched, clean>>

\* The lock of the language is released and passes to the first task queued.
LangGrant(t) ==
    /\ MayRun(t)
    /\ task[t].pc = "wait"
    /\ lang_lock[LangOf(t)] = 0
    /\ lang_waiters[LangOf(t)] # <<>>
    /\ Head(lang_waiters[LangOf(t)]) = t
    /\ lang_lock' = [lang_lock EXCEPT ![LangOf(t)] = t]
    /\ lang_waiters' = [lang_waiters EXCEPT ![LangOf(t)] = Tail(@)]
    /\ task' = [task EXCEPT ![t].pc = "locked"]
    /\ UNCHANGED beyond_cache
    /\ UNCHANGED <<lookups, clock, cache_enabled, entries, fetches, refetched, clean>>

\* Under the lock the stored entry is good enough: it is returned.
UseCached(t) ==
    /\ task[t].pc = "locked"
    /\ ServedFromCache(task[t].req, entries[LangOf(t)], clock)
    /\ lang_lock' = [lang_lock EXCEPT ![LangOf(t)] = 0]
    /\ task' = [task EXCEPT ![t] = Built([@ EXCEPT !.at = clock],
                                         Served(task[t].req, entries[LangOf(t)]))]
    /\ UNCHANGED beyond_cache
    /\ UNCHANGED <<lookups, clock, cache_enabled, entries, fetches, refetched, clean, lang_waiters>>

\* Under the lock the entry is missing, stale or to be refreshed: the fetch
\* from the upstream starts, the lock being held.
StartFetch(t) ==
    /\ task[t].pc = "locked"
    /\ ~ServedFromCache(task[t].req, entries[LangOf(t)], clock)
    /\ fetches' = [fetches EXCEPT ![LangOf(t)] = @ + 1]
    /\ refetched' = [refetched EXCEPT
                       ![LangOf(t)] = IF task[t].force_refresh THEN @ ELSE @ + 1]
    /\ task' = [task EXCEPT
                  ![t] = [@ EXCEPT !.pc = "fetching", !.at = clock,
                                   !.entry = entries[LangOf(t)]]]
    /\ UNCHANGED beyond_cache
    /\ UNCHANGED <<lookups, clock, cache_enabled, entries, clean, lang_lock, lang_waiters>>

\* The fetch returned data: a new entry is built, stored if it is to be cached,
\* and returned.
FetchedData(t) ==
    LET l == LangOf(t)
        e == [ver |-> fetches[l], fetched |-> task[t].at]
    IN  /\ MayRun(t)
        /\ task[t].pc = "fetching"
        /\ entries' = IF Stores(task[t].req.cache) THEN [entries EXCEPT ![l] = e] ELSE entries
        /\ clean' = (clean /\ Stores(task[t].req.cache))
        /\ lang_lock' = [lang_lock EXCEPT ![l] = 0]
        /\ task' = [task EXCEPT
                      ![t] = Built([@ EXCEPT !.entry = NoEntry, !.got = "data"], e)]
        /\ UNCHANGED beyond_cache
        /\ UNCHANGED <<lookups, clock, cache_enabled, fetches, refetched, lang_waiters>>

\* The fetch failed or returned nothing: the entry read before it is returned,
\* if there is one.
FetchedNothing(t) ==
    /\ MayRun(t)
    /\ task[t].pc = "fetching"
    /\ clean' = FALSE
    /\ lang_lock' = [lang_lock EXCEPT ![LangOf(t)] = 0]
    /\ task' = [task EXCEPT
                  ![t] = Built([@ EXCEPT !.entry = NoEntry, !.got = "nothing"],
                               task[t].entry)]
    /\ UNCHANGED beyond_cache
    /\ UNCHANGED <<lookups, clock, cache_enabled, entries, fetches, refetched, lang_waiters>>

\* api.py:795, match.py:159, player.py:274   get_match, get_bounty and the player
\* methods call _fetch_entry(language) and build their objects from the entry.
GetMatch(t, language, expand_players) ==
    LET r == FetchEntryCall(language, FALSE, "None")
        l == r.language
        free == lang_lock[l] = 0 /\ lang_waiters[l] = <<>>
        tk == [IdleTask EXCEPT !.req = r, !.op = "match", !.enabled = cache_enabled,
                               !.had = entries[l], !.expand_players = expand_players]
    IN  /\ MayRun(t)
        /\ task[t].pc \in {"idle", "done"}
        /\ lookups < MaxLookups
        /\ lookups' = lookups + 1
        /\ IF free
           THEN /\ lang_lock' = [lang_lock EXCEPT ![l] = t]
                /\ lang_waiters' = lang_waiters
                /\ task' = [task EXCEPT ![t] = [tk EXCEPT !.pc = "locked"]]
           ELSE /\ lang_lock' = lang_lock
                /\ lang_waiters' = [lang_waiters EXCEPT ![l] = Append(@, t)]
                /\ task' = [task EXCEPT ![t] = [tk EXCEPT !.pc = "wait", !.queued = TRUE]]
        /\ UNCHANGED beyond_cache
        /\ UNCHANGED <<clock, cache_enabled, entries, fetches, refetched, clean>>

\* api.py:797-803   the request of get_match is answered.
MatchAnswered(t, o, known) ==
    /\ MayRun(t)
    /\ task[t].pc = "request"
    /\ task' = [task EXCEPT ![t] = MatchBuilt(@, o, known)]
    /\ UNCHANGED beyond_cache
    /\ UNCHANGED <<lookups, clock, cache_enabled, entries, fetches, refetched, clean,
                   lang_lock, lang_waiters>>

\* api.py:802, match.py:39-46   the getplayerbatch request _get_players awaits
\* has ended: its exception ends get_match, and the object is built otherwise.
MatchPlayersAnswered(t, o) ==
    /\ MayRun(t)
    /\ task[t].pc = "players"
    /\ task' = [task EXCEPT ![t] =
                   IF o \in RequestExceptions
                   THEN [@ EXCEPT !.pc = "done", !.exc = o]
                   ELSE MatchBuilt(@, "private", @.known)]
    /\ UNCHANGED beyond_cache
    /\ UNCHANGED <<lookups, clock, cache_enabled, entries, fetches, refetched, clean,
                   lang_lock, lang_waiters>>

\* test_misc.py:420, 456   the application switches the cache on or off between
\* two of its calls.
SetCacheEnabled(b) ==
    /\ \A t \in Tasks : task[t].pc \in {"idle", "done"}
    /\ cache_enabled # b
    /\ cache_enabled' = b
    /\ UNCHANGED beyond_cache
    /\ UNCHANGED <<clock, entries, fetches, refetched, clean, lang_lock, lang_waiters,
                   lookups, task>>

\* The steps of the cache, the callers passing one of the values C as the cache
\* argument.
CacheStep(C) ==
    \/ CacheTick
    \/ \E t \in Tasks, l \in {"None", "Polish"}, f \in BOOLEAN, c \in C :
          GetChampionInfo(t, l, f, c)
    \/ \E t \in Tasks : LangGrant(t)
    \/ \E t \in Tasks : UseCached(t)
    \/ \E t \in Tasks : StartFetch(t)
    \/ \E t \in Tasks : FetchedData(t)
    \/ \E t \in Tasks : FetchedNothing(t)

\* ------------------------------------------------------------------ lookup
\* arez/utils.py: _LookupBase and Lookup.  CacheObject lives in arez/mixins.py,
\* which is not part of the sources at hand: its defaults follow the design
\* document (section 3: id 0 and the empty name).

\* bounds
MaxId == 2           \* ids run from 0 to MaxId
MaxAdds == 3         \* Lookup.add calls
MaxCacheObjects == 3 \* _cache_object calls

DEFAULT_ID == 0
DEFAULT_NAME == <<>>

\* Absent arguments and results: None.
NoId == 0 - 1
NoName == <<"None">>
NoObj == 0

Ids == 0..MaxId

\* Names are sequences of letters.
Names ==
    { <<>>, <<"a">>, <<"a", "b">>, <<"A", "b">>, <<"b", "a">>, <<"A", "B", "c">> }

\* A CacheObject with the defaults standing in for what is not given.
CacheObject(id, name) ==
    [ id   |-> IF id = NoId THEN DEFAULT_ID ELSE id,
      name |-> IF name = NoName THEN DEFAULT_NAME ELSE name,
      kind |-> "CacheObject" ]

\* An element of the collection: its key is its id and its name.
Element(id, name) == [id |-> id, name |-> name, kind |-> "Element"]

IsDefaultId(o) == o.id = DEFAULT_ID
IsDefaultName(o) == o.name = DEFAULT_NAME

\* str.lower()
LowerChar(c) ==
    CASE c = "A" -> "a"
      [] c = "B" -> "b"
      [] c = "C" -> "c"
      [] OTHER -> c

Lower(s) == [i \in 1..Len(s) |-> LowerChar(s[i])]

\* A dict: its items in the order of insertion.
HasKey(d, k) == \E i \in 1..Len(d) : d[i][1] = k

DictGet(d, k) ==
    IF HasKey(d, k) THEN d[CHOOSE i \in 1..Len(d) : d[i][1] = k][2] ELSE NoObj

DictSet(d, k, v) ==
    IF HasKey(d, k)
    THEN [i \in 1..Len(d) |-> IF d[i][1] = k THEN <<k, v>> ELSE d[i]]
    ELSE Append(d, <<k, v>>)

\* A ChainMap of two dicts: the first one answers first; the iteration goes
\* over the keys of the second and then the keys only the first has.
ChainGet(first, second, k) ==
    IF HasKey(first, k) THEN DictGet(first, k) ELSE DictGet(second, k)

ChainItems(first, second) ==
    LET only == SelectSeq(first, LAMBDA it : ~HasKey(second, it[1]))
        keys == [i \in 1..Len(second) |-> second[i][1]] \o [i \in 1..Len(only) |-> only[i][1]]
    IN  [i \in 1..Len(keys) |-> <<keys[i], ChainGet(first, second, keys[i])>>]

\* A query and its answer: what the caller asked and has not got yet.
Asked(op, id, name, with_cached) ==
    [op |-> op, id |-> id, name |-> name, with_cached |-> with_cached,
     limit |-> 0, cutoff |-> <<0, 1>>, ret |-> NoObj, matches |-> <<>>]

\* No query since the Lookup last changed.  Two queries in a row see the same
\* Lookup: one query between two changes shows all there is to see.
NoAnswer == Asked("none", NoId, NoName, FALSE)

LookupInit ==
    /\ objs = <<>>
    /\ list_lookup = <<>>
    /\ id_lookup = <<>>
    /\ name_lookup = <<>>
    /\ cached_id_lookup = <<>>
    /\ cached_name_lookup = <<>>
    /\ co_calls = <<>>
    /\ answer = NoAnswer

\* The name index with the element under its name as given.
IndexedExact(d, name, ref) == DictSet(d, name, ref)

\* utils.py:604   the name index with the element under its lowercase name.
Indexed(d, name, ref) == DictSet(d, Lower(name), ref)

\* utils.py:596-604   Lookup.add
Add(id, name) ==
    LET ref == Len(objs) + 1
    IN  /\ Len(list_lookup) < MaxAdds
        /\ objs' = Append(objs, Element(id, name))
        /\ list_lookup' = Append(list_lookup, ref)
        /\ id_lookup' = DictSet(id_lookup, id, ref)
        /\ name_lookup' = Indexed(name_lookup, name, ref)
        /\ answer' = NoAnswer
        /\ UNCHANGED <<shadow, co_calls>>
        /\ UNCHANGED beyond_lookup

\* utils.py:420-431   _LookupBase.get with an integer and with a string
GetById(n, with_cached) ==
    IF with_cached
    THEN ChainGet(id_lookup, cached_id_lookup, n)
    ELSE DictGet(id_lookup, n)

GetByName(s, with_cached) ==
    IF with_cached
    THEN ChainGet(name_lookup, cached_name_lookup, Lower(s))
    ELSE DictGet(name_lookup, Lower(s))

\* get(n) is called.
GetId(n, with_cached) ==
    /\ answer = NoAnswer
    /\ answer' = [Asked("get", n, NoName, with_cached) EXCEPT !.ret = GetById(n, with_cached)]
    /\ UNCHANGED <<objs, primary, shadow, co_calls>>
    /\ UNCHANGED beyond_lookup

\* get(s) is called.
GetName(s, with_cached) ==
    /\ answer = NoAnswer
    /\ answer' = [Asked("get", NoId, s, with_cached) EXCEPT !.ret = GetByName(s, with_cached)]
    /\ UNCHANGED <<objs, primary, shadow, co_calls>>
    /\ UNCHANGED beyond_lookup

\* The object cached for an id is reused only by a call that passes no name.
ReusedByIdNamelessOnly(e, name) == name = NoName

\* utils.py:387   the object cached for the id is returned when it has a name
\* or the call brings none.
ReusedById(e, name) == ~IsDefaultName(e) \/ name = NoName

\* utils.py:393   the object cached for the name is returned when it has an id
\* or the call brings none.
ReusedByName(e, id) == ~IsDefaultId(e) \/ id = NoId

\* A new CacheObject indexed by name only.
StoredByNameOnly(o, ref) ==
    [ id_lookup          |-> id_lookup,
      name_lookup        |-> name_lookup,
      cached_id_lookup   |-> cached_id_lookup,
      cached_name_lookup |-> IF IsDefaultName(o) THEN cached_name_lookup
                             ELSE DictSet(cached_name_lookup, Lower(o.name), ref) ]

\* A new CacheObject put into the index of the elements.
StoredInPrimary(o, ref) ==
    [ id_lookup          |-> IF IsDefaultId(o) THEN id_lookup
                             ELSE DictSet(id_lookup, o.id, ref),
      name_lookup        |-> IF IsDefaultName(o) THEN name_lookup
                             ELSE DictSet(name_lookup, Lower(o.name), ref),
      cached_id_lookup   |-> cached_id_lookup,
      cached_name_lookup |-> cached_name_lookup ]

\* utils.py:395-399   the maps after a new CacheObject has been recorded.
Stored(o, ref) ==
    [ id_lookup          |-> id_lookup,
      name_lookup        |-> name_lookup,
      cached_id_lookup   |-> IF IsDefaultId(o) THEN cached_id_lookup
                             ELSE DictSet(cached_id_lookup, o.id, ref),
      cached_name_lookup |-> IF IsDefaultName(o) THEN cached_name_lookup
                             ELSE DictSet(cached_name_lookup, Lower(o.name), ref) ]

\* utils.py:367-378   the element of the collection the arguments name, if any.
Resolved(id, name) == IF id # NoId THEN GetById(id, FALSE) ELSE GetByName(name, FALSE)

\* utils.py:383-394   the CacheObject made earlier that the call returns, if any.
Cached(id, name) ==
    LET byId == IF id # NoId THEN DictGet(cached_id_lookup, id) ELSE NoObj
        byName == IF name # NoName /\ byId = NoObj
                  THEN DictGet(cached_name_lookup, Lower(name)) ELSE NoObj
    IN  IF byId # NoObj /\ ReusedById(objs[byId], name) THEN byId
        ELSE IF byName # NoObj /\ ReusedByName(objs[byName], id) THEN byName
        ELSE NoObj

\* utils.py:355-400   _LookupBase._cache_object; a call without id and name
\* raises TypeError and is left out.
CacheObjectCall(id, name) ==
    LET found == IF Resolved(id, name) # NoObj THEN Resolved(id, name) ELSE Cached(id, name)
        ref == Len(objs) + 1
        maps == Stored(CacheObject(id, name), ref)
    IN  /\ id # NoId \/ name # NoName
        /\ Len(co_calls) < MaxCacheObjects
        /\ IF found # NoObj
           THEN /\ co_calls' = Append(co_calls, [id |-> id, name |-> name, ret |-> found])
                /\ UNCHANGED <<objs, primary, shadow>>
           ELSE /\ co_calls' = Append(co_calls, [id |-> id, name |-> name, ret |-> ref])
                /\ objs' = Append(objs, CacheObject(id, name))
                /\ id_lookup' = maps.id_lookup
                /\ name_lookup' = maps.name_lookup
                /\ cached_id_lookup' = maps.cached_id_lookup
                /\ cached_name_lookup' = maps.cached_name_lookup
                /\ UNCHANGED list_lookup
        /\ answer' = NoAnswer
        /\ UNCHANGED beyond_lookup

\* difflib.SequenceMatcher, as get_fuzzy_matches uses it (utils.py:552-564).
\* A score is a fraction <<numerator, denominator>>.
Letters(s) == {s[i] : i \in 1..Len(s)}

Count(s, c) == Cardinality({i \in 1..Len(s) : s[i] = c})

Min(x, y) == IF x <= y THEN x ELSE y

\* The blocks a and b have in common: <<i, j, k>> with a[i..i+k-1] = b[j..j+k-1].
Blocks(a, b) ==
    { t \in (1..Len(a)) \X (1..Len(b)) \X (1..Min(Len(a), Len(b))) :
        /\ t[1] + t[3] - 1 <= Len(a)
        /\ t[2] + t[3] - 1 <= Len(b)
        /\ \A d \in 0..(t[3] - 1) : a[t[1] + d] = b[t[2] + d] }

\* find_longest_match: the longest block, the one that starts earliest in a,
\* and of those the one that starts earliest in b.
LongestMatch(a, b) ==
    LET all == Blocks(a, b)
    IN  CHOOSE t \in all :
            \A u \in all :
                \/ u[3] < t[3]
                \/ u[3] = t[3] /\ t[1] < u[1]
                \/ u[3] = t[3] /\ t[1] = u[1] /\ t[2] <= u[2]

\* get_matching_blocks: the longest block, then the same to its left and to
\* its right; the number of letters matched.
RECURSIVE Matched(_, _)
Matched(a, b) ==
    IF Blocks(a, b) = {} THEN 0
    ELSE LET t == LongestMatch(a, b)
         IN  t[3] + Matched(SubSeq(a, 1, t[1] - 1), SubSeq(b, 1, t[2] - 1))
                  + Matched(SubSeq(a, t[1] + t[3], Len(a)), SubSeq(b, t[2] + t[3], Len(b)))

\* The letters of a that b has, each as often as b has it.
RECURSIVE Shared(_, _, _)
Shared(S, a, b) ==
    IF S = {} THEN 0
    ELSE LET c == CHOOSE x \in S : TRUE
         IN  Min(Count(a, c), Count(b, c)) + Shared(S \ {c}, a, b)

\* _calculate_ratio: 2 * matches / length, 1 when both are empty.
CalculateRatio(matches, length) == IF length > 0 THEN <<2 * matches, length>> ELSE <<1, 1>>

Ratio(a, b) == CalculateRatio(Matched(a, b), Len(a) + Len(b))
QuickRatio(a, b) == CalculateRatio(Shared(Letters(a), a, b), Len(a) + Len(b))
RealQuickRatio(a, b) == CalculateRatio(Min(Len(a), Len(b)), Len(a) + Len(b))

\* x >= y for two fractions.
AtLeast(x, y) == x[1] * y[2] >= y[1] * x[2]

\* Every name passes.
PassesAlways(key, query, cutoff) == TRUE

\* utils.py:561-565   the three tests a name has to pass.
Passes(key, query, cutoff) ==
    /\ AtLeast(RealQuickRatio(key, query), cutoff)
    /\ AtLeast(QuickRatio(key, query), cutoff)
    /\ AtLeast(Ratio(key, query), cutoff)

\* utils.py:567   scores.sort(key=itemgetter(1), reverse=True): by falling score,
\* equal scores in the order they came.
RECURSIVE SortedByScore(_)
SortedByScore(scores) ==
    IF scores = <<>> THEN <<>>
    ELSE LET n == Len(scores)
             x == scores[n]
             rest == SortedByScore(SubSeq(scores, 1, n - 1))
             k == Cardinality({i \in 1..Len(rest) : AtLeast(rest[i][2], x[2])})
         IN  SubSeq(rest, 1, k) \o <<x>> \o SubSeq(rest, k + 1, Len(rest))

\* utils.py:552-569   the matches with their scores: <<element, score>>.
FuzzyMatches(name, limit, cutoff, with_cached) ==
    LET query == Lower(name)
        bank == IF with_cached THEN ChainItems(name_lookup, cached_name_lookup)
                ELSE name_lookup
        kept == SelectSeq(bank, LAMBDA it : Passes(it[1], query, cutoff))
        scores == [i \in 1..Len(kept) |-> <<kept[i][2], Ratio(kept[i][1], query)>>]
    IN  SubSeq(SortedByScore(scores), 1, Min(limit, Len(scores)))

\* get_fuzzy_matches is called; limit > 0 and 0 <= cutoff <= 1, anything else
\* raises ValueError (utils.py:547-550).
GetFuzzyMatches(name, limit, cutoff, with_cached) ==
    /\ answer = NoAnswer
    /\ limit > 0
    /\ AtLeast(cutoff, <<0, 1>>) /\ AtLeast(<<1, 1>>, cutoff)
    /\ answer' = [Asked("fuzzy", NoId, name, with_cached) EXCEPT
                    !.limit = limit, !.cutoff = cutoff,
                    !.matches = FuzzyMatches(name, limit, cutoff, with_cached)]
    /\ UNCHANGED <<objs, primary, shadow, co_calls>>
    /\ UNCHANGED beyond_lookup

\* The cutoffs and limits tried.
Cutoffs == { <<0, 1>>, <<1, 2>>, <<2, 3>>, <<1, 1>> }
Limits == {1, 2}

\* ------------------------------------------------------- the status monitor

\* The minutes the clock may reach, the ticks the monitor may make and the
\* calls the other task may make.
MaxMinutes == 4
MaxTicks == 3
MaxAsks == 2

\* api.py:33-34: the default check and recheck intervals, and api.py:169:
\* how long a fetched status is served from the cache, all in minutes.
CHECK_INTERVAL == 3
RECHECK_INTERVAL == 1
FRESH_FOR == 1

\* A ServerStatus is a timestamped snapshot; what the two sources report is
\* summed up as its health.
Healths == {"Operational", "LimitedAccess", "Down"}
ServerStatus(health, timestamp) == [health |-> health, timestamp |-> timestamp]
\* None.
NoStatus == [health |-> "None", timestamp |-> 0 - 1]

\* ServerStatus.__eq__: the derived statuses are compared, not the timestamps.
StatusEqual(a, b) == a.health = b.health
\* ServerStatus.all_up and ServerStatus.limited_access.
AllUp(st) == st.health # "Down"
LimitedAccess(st) == st.health = "LimitedAccess"

\* What the two sources answer to one fetch: a status, nothing from either
\* of them, or an exception get_server_status does not catch.
StatusOutcomes == {"data", "nothing", "error"}

\* asyncio.Lock.acquire: the lock is taken at once when it is not held and
\* every task waiting for it was cancelled before it was woken.
StatusLockFree ==
    /\ status_lock.holder = "none"
    /\ \A i \in 1..Len(status_lock.queue) : status_lock.queue[i] = "cancelled"
Taken(who) == [status_lock EXCEPT !.holder = who]
Queued(who) == [status_lock EXCEPT !.queue = Append(@, who)]
Handed(who) == [holder |-> who, queue |-> Tail(status_lock.queue)]
Released == [status_lock EXCEPT !.holder = "none"]
NextInLine(who) ==
    /\ status_lock.holder = "none"
    /\ status_lock.queue # <<>>
    /\ Head(status_lock.queue) = who

\* get_server_status, api.py:166-173: the cached status is served when no
\* refresh is forced and it is less than a minute old.
UsesCachedWhenStale(force_refresh) ==
    /\ ~force_refresh
    /\ server_status # NoStatus
    /\ status_now >= server_status.timestamp + FRESH_FOR
UsesCached(force_refresh) ==
    /\ ~force_refresh
    /\ server_status # NoStatus
    /\ status_now < server_status.timestamp + FRESH_FOR

\* get_server_status, api.py:175-215, once both sources have answered: what
\* is raised, what is returned and what _server_status becomes.
Fetched(outcome, health) ==
    CASE outcome = "data" ->
           [ raised |-> "none", how |-> "data",
             status |-> ServerStatus(health, status_now),
             stored |-> ServerStatus(health, status_now) ]
      [] outcome = "nothing" /\ server_status = NoStatus ->
           [ raised |-> "NotFound", how |-> "NotFound",
             status |-> NoStatus, stored |-> server_status ]
      [] outcome = "nothing" /\ server_status # NoStatus ->
           [ raised |-> "none", how |-> "cached",
             status |-> server_status, stored |-> server_status ]
      [] outcome = "error" ->
           [ raised |-> "Exception", how |-> "Exception",
             status |-> NoStatus, stored |-> server_status ]

\* _status_loop, api.py:223-227: the callback is dispatched when there was a
\* status before the call and the one returned is unequal to it.
ChangedOrFirst(old_status, new_status) ==
    ~StatusEqual(old_status, new_status)
Changed(old_status, new_status) ==
    /\ old_status # NoStatus
    /\ ~StatusEqual(old_status, new_status)

\* _status_loop, api.py:219 and 229-238: how long the loop sleeps after a
\* tick.
IntervalUnlessRaised(raised, new_status) ==
    IF raised = "none" /\ (~AllUp(new_status) \/ LimitedAccess(new_status))
    THEN RECHECK_INTERVAL
    ELSE CHECK_INTERVAL
Interval(raised, new_status) ==
    IF raised # "none" \/ ~AllUp(new_status) \/ LimitedAccess(new_status)
    THEN RECHECK_INTERVAL
    ELSE CHECK_INTERVAL

\* The monitor before register_status_callback and after its cancellation.
MonitorOff ==
    [ pc         |-> "off",
      old_status |-> NoStatus,    \* old_status of the latest tick
      new_status |-> NoStatus,    \* new_status of the latest finished tick
      how        |-> "none",      \* how the latest finished tick ended
      fired      |-> FALSE,       \* whether the latest tick created a callback task
      delay      |-> 0,           \* delay_delta
      wake       |-> 0,           \* when the sleep ends
      ticks      |-> 0 ]

AskerIdle == [pc |-> "idle", force_refresh |-> FALSE, asks |-> 0]

StatusInit ==
    /\ status_now = 0
    /\ server_status = NoStatus
    /\ status_lock = [holder |-> "none", queue |-> <<>>]
    /\ monitor = MonitorOff
    /\ asker = AskerIdle
    /\ dispatched = 0

\* A minute passes; a sleeping monitor wakes up on time.
StatusClock ==
    /\ status_now < MaxMinutes
    /\ monitor.pc = "sleeping" => status_now < monitor.wake
    /\ status_now' = status_now + 1
    /\ UNCHANGED <<server_status, status_lock, monitor, asker, dispatched>>
    /\ UNCHANGED beyond_status

\* register_status_callback, api.py:342-346: the loop's task is created.
RegisterStatusCallback ==
    /\ monitor.pc = "off"
    /\ monitor' = [monitor EXCEPT !.pc = "ready"]
    /\ UNCHANGED <<status_now, server_status, status_lock, asker, dispatched>>
    /\ UNCHANGED beyond_status

\* asyncio.Task.cancel   the cancellation is only requested: the task keeps
\* the lock, or its place in the queue, until the event loop runs it.  The
\* future of a task that waits for the lock is cancelled at once; the future
\* of a task the lock was released to has its result and stays as it is.
Disowned(who, woken) ==
    IF who # "monitor" THEN who
    ELSE IF woken THEN "woken, cancelled" ELSE "cancelled"

\* The queue without the first of its cancelled tasks.
RECURSIVE WithoutFirstCancelled(_)
WithoutFirstCancelled(q) ==
    IF q = <<>> THEN <<>>
    ELSE IF Head(q) \in {"cancelled", "woken, cancelled"} THEN Tail(q)
    ELSE <<Head(q)>> \o WithoutFirstCancelled(Tail(q))

\* register_status_callback(None), api.py:313-317, and close, api.py:123-124:
\* Task.cancel() is called on the loop's task, which is not run by it.
CancelMonitor ==
    /\ monitor.pc # "off"
    /\ monitor' = [MonitorOff EXCEPT !.ticks = monitor.ticks]
    /\ status_lock' =
          [ holder |-> Disowned(status_lock.holder, FALSE),
            queue  |-> [i \in 1..Len(status_lock.queue) |->
                          Disowned(status_lock.queue[i],
                                   i = 1 /\ status_lock.holder = "none")] ]
    /\ UNCHANGED <<status_now, server_status, asker, dispatched>>
    /\ UNCHANGED beyond_status

\* api.py:165-177   the event loop runs a cancelled task: CancelledError is
\* raised at its await, inside the lock block or in the queue of the lock, and
\* the task gives up the lock or its place.
CancelledRuns ==
    /\ \/ status_lock.holder = "cancelled"
       \/ \E i \in 1..Len(status_lock.queue) :
             status_lock.queue[i] \in {"cancelled", "woken, cancelled"}
    /\ status_lock' =
          IF status_lock.holder = "cancelled"
          THEN Released
          ELSE [status_lock EXCEPT !.queue = WithoutFirstCancelled(@)]
    /\ UNCHANGED <<status_now, server_status, monitor, asker, dispatched>>
    /\ UNCHANGED beyond_status

\* _status_loop, api.py:219-222: a tick begins: old_status is read and
\* get_server_status(force_refresh=True) is entered, up to its first await.
MonitorTick ==
    /\ monitor.pc = "ready"
    /\ monitor.ticks < MaxTicks
    /\ monitor' = [monitor EXCEPT !.old_status = server_status,
                                  !.fired = FALSE,
                                  !.ticks = @ + 1,
                                  !.pc = IF StatusLockFree THEN "fetching" ELSE "waiting"]
    /\ status_lock' = IF StatusLockFree THEN Taken("monitor") ELSE Queued("monitor")
    /\ UNCHANGED <<status_now, server_status, asker, dispatched>>
    /\ UNCHANGED beyond_status

\* The lock is handed to the waiting monitor, which starts to fetch.
MonitorGranted ==
    /\ monitor.pc = "waiting"
    /\ NextInLine("monitor")
    /\ monitor' = [monitor EXCEPT !.pc = "fetching"]
    /\ status_lock' = Handed("monitor")
    /\ UNCHANGED <<status_now, server_status, asker, dispatched>>
    /\ UNCHANGED beyond_status

\* _status_loop, api.py:222-240: get_server_status returns or raises, the
\* callback is dispatched or not, and the loop goes to sleep.
MonitorFetched(outcome, health) ==
    /\ monitor.pc = "fetching"
    /\ LET got == Fetched(outcome, health)
           fires == got.raised = "none" /\ Changed(monitor.old_status, got.status)
           delay == Interval(got.raised, got.status)
       IN /\ server_status' = got.stored
          /\ dispatched' = IF fires THEN dispatched + 1 ELSE dispatched
          /\ monitor' = [monitor EXCEPT !.pc = "sleeping",
                                        !.new_status = got.status,
                                        !.how = got.how,
                                        !.fired = fires,
                                        !.delay = delay,
                                        !.wake = status_now + delay]
    /\ status_lock' = Released
    /\ UNCHANGED <<status_now, asker>>
    /\ UNCHANGED beyond_status

\* _status_loop, api.py:240: the sleep is over.
MonitorWake ==
    /\ monitor.pc = "sleeping"
    /\ status_now >= monitor.wake
    /\ monitor' = [monitor EXCEPT !.pc = "ready"]
    /\ UNCHANGED <<status_now, server_status, status_lock, asker, dispatched>>
    /\ UNCHANGED beyond_status

\* get_server_status, api.py:165-173, called by another task: it waits for
\* the lock, is served the cached status, or starts to fetch.
AskStatus(force_refresh) ==
    /\ asker.pc = "idle"
    /\ asker.asks < MaxAsks
    /\ asker' = [ pc |-> IF ~StatusLockFree THEN "waiting"
                         ELSE IF UsesCached(force_refresh) THEN "idle"
                         ELSE "fetching",
                  force_refresh |-> force_refresh,
                  asks |-> asker.asks + 1 ]
    /\ status_lock' = IF ~StatusLockFree THEN Queued("asker")
                      ELSE IF UsesCached(force_refresh) THEN status_lock
                      ELSE Taken("asker")
    /\ UNCHANGED <<status_now, server_status, monitor, dispatched>>
    /\ UNCHANGED beyond_status

\* The lock is handed to the waiting task.
AskerGranted ==
    /\ asker.pc = "waiting"
    /\ NextInLine("asker")
    /\ asker' = [asker EXCEPT !.pc = IF UsesCached(asker.force_refresh)
                                     THEN "idle" ELSE "fetching"]
    /\ status_lock' = IF UsesCached(asker.force_refresh)
                      THEN [holder |-> "none", queue |-> Tail(status_lock.queue)]
                      ELSE Handed("asker")
    /\ UNCHANGED <<status_now, server_status, monitor, dispatched>>
    /\ UNCHANGED beyond_status

\* get_server_status, api.py:175-215: the other task's fetch ends.
AskerFetched(outcome, health) ==
    /\ asker.pc = "fetching"
    /\ server_status' = Fetched(outcome, health).stored
    /\ asker' = [asker EXCEPT !.pc = "idle"]
    /\ status_lock' = Released
    /\ UNCHANGED <<status_now, monitor, dispatched>>
    /\ UNCHANGED beyond_status

\* ------------------------------------------------------ the callback tasks

\* How a callback ends.
CallbackOutcomes == {"returned", "raised"}

CallbackInit == callback_ended = {}

\* The callback tasks that have not ended.
Pending == {n \in 1..dispatched : \A o \in CallbackOutcomes : <<n, o>> \notin callback_ended}

\* register_status_callback, api.py:332-340, and _status_loop, api.py:228:
\* what the end of a callback does to the loop.  The callback runs in a task
\* of its own, in which the wrapper logs and re-raises its exception: the
\* loop's task is not touched.
LoopEndsWhenCallbackRaises(outcome, loop) ==
    IF outcome = "raised" THEN [loop EXCEPT !.pc = "off"] ELSE loop
LoopRechecksWhenCallbackRaises(outcome, loop) ==
    IF outcome = "raised" /\ loop.pc = "sleeping"
    THEN [loop EXCEPT !.delay = RECHECK_INTERVAL,
                      !.wake = (loop.wake - loop.delay) + RECHECK_INTERVAL]
    ELSE loop
LoopAfterCallback(outcome, loop) == loop

\* _status_callback, api.py:332-340: the callback of task n returns or raises.
CallbackEnds(n, outcome) ==
    /\ n \in Pending
    /\ callback_ended' = callback_ended \cup {<<n, outcome>>}
    /\ monitor' = LoopAfterCallback(outcome, monitor)
    /\ UNCHANGED <<status_now, server_status, status_lock, asker, dispatched>>
    /\ UNCHANGED beyond_callback

\* ------------------------------------------- registering the status callback

\* The register_status_callback calls made.
MaxRegistrations == 3

\* What is passed as the callback: None, something that is not callable, or
\* a function, sync or async, with the kinds of its parameters
\* (inspect.Parameter.kind).
None == [kind |-> "None", params |-> <<>>, coro |-> FALSE]
NotCallable == [kind |-> "int", params |-> <<>>, coro |-> FALSE]
Function(params, coro) == [kind |-> "function", params |-> params, coro |-> coro]
Signatures ==
    { <<>>,
      <<"POSITIONAL_OR_KEYWORD">>,
      <<"POSITIONAL_ONLY", "POSITIONAL_OR_KEYWORD">>,
      <<"POSITIONAL_OR_KEYWORD", "KEYWORD_ONLY">>,
      <<"POSITIONAL_OR_KEYWORD", "VAR_POSITIONAL">>,
      <<"POSITIONAL_OR_KEYWORD", "POSITIONAL_OR_KEYWORD", "POSITIONAL_OR_KEYWORD">> }
Callbacks ==
    {None, NotCallable} \cup {Function(p, c) : p \in Signatures, c \in BOOLEAN}

\* The (check, recheck) pairs passed, the first being the default one.
IntervalPairs == { <<CHECK_INTERVAL, RECHECK_INTERVAL>>, <<2, 1>> }

\* register_status_callback, api.py:318: callable(callback).
Callable(callback) == callback.kind = "function"

\* register_status_callback, api.py:320-325: one or two parameters, all of
\* them positional.
arg_types == {"POSITIONAL_OR_KEYWORD", "POSITIONAL_ONLY"}
AcceptsAnyKind(callback) ==
    1 <= Len(callback.params) /\ Len(callback.params) <= 2
Accepts(callback) ==
    /\ 1 <= Len(callback.params) /\ Len(callback.params) <= 2
    /\ \A i \in 1..Len(callback.params) : callback.params[i] \in arg_types

\* register_status_callback, api.py:318-328: what the call raises.
Raises(callback) ==
    IF ~Callable(callback) THEN "TypeError"
    ELSE IF ~Accepts(callback) THEN "ValueError"
    ELSE "none"

\* register_status_callback, api.py:329-340: the wrapper stored as
\* _status_callback.
Wrapper(callback) ==
    [ callback    |-> callback,
      pass_before |-> Len(callback.params) # 1,
      is_coro     |-> callback.coro ]
\* _status_callback before the first registration.
NoWrapper == [callback |-> None, pass_before |-> FALSE, is_coro |-> FALSE]

\* What a loop's task has read at its latest tick, before its first tick.
Unread == [callback |-> NoWrapper, intervals |-> <<0, 0>>]
\* A task created for _status_loop.
LoopTask == [cancelled |-> FALSE, read |-> Unread]

\* No _status_task.
NoTask == 0

\* register_status_callback, api.py:314-315 and 342-343: the task
\* _status_task names, if any, is cancelled.
NotCancelling(tasks, current) == tasks
Cancelling(tasks, current) ==
    IF current = NoTask THEN tasks
    ELSE [tasks EXCEPT ![current].cancelled = TRUE]

RegisterInit ==
    /\ status_task = NoTask
    /\ loop_tasks = <<>>
    /\ status_callback = NoWrapper
    /\ status_intervals = <<CHECK_INTERVAL, RECHECK_INTERVAL>>
    /\ registered = [ n |-> 0, callback |-> None, intervals |-> <<0, 0>>,
                      raised |-> "none", closed |-> FALSE ]

\* register_status_callback(callback, check_interval, recheck_interval),
\* api.py:313-346.
Register(callback, intervals) ==
    /\ registered.n < MaxRegistrations
    /\ registered' = [ n |-> registered.n + 1, callback |-> callback,
                       intervals |-> intervals,
                       raised |-> IF callback = None THEN "none" ELSE Raises(callback),
                       closed |-> registered.closed ]
    /\ IF callback = None
       THEN /\ loop_tasks' = Cancelling(loop_tasks, status_task)
            /\ status_task' = NoTask
            /\ UNCHANGED <<status_callback, status_intervals>>
       ELSE IF Raises(callback) # "none"
       THEN UNCHANGED <<status_task, loop_tasks, status_callback, status_intervals>>
       ELSE /\ status_callback' = Wrapper(callback)
            /\ status_intervals' = intervals
            /\ loop_tasks' = Append(Cancelling(loop_tasks, status_task), LoopTask)
            /\ status_task' = Len(loop_tasks) + 1
    /\ UNCHANGED beyond_register

\* close(), api.py:123-124: the task _status_task names, if any, is
\* cancelled, and _status_task goes on naming it.
Close ==
    /\ loop_tasks' = Cancelling(loop_tasks, status_task)
    /\ registered' = [registered EXCEPT !.closed = TRUE]
    /\ UNCHANGED <<status_task, status_callback, status_intervals>>
    /\ UNCHANGED beyond_register

\* _status_loop, api.py:219 and 226-228: a task that is not cancelled makes
\* a tick, reading _status_intervals and _status_callback.
LoopReads(i) ==
    /\ i \in 1..Len(loop_tasks)
    /\ ~loop_tasks[i].cancelled
    /\ loop_tasks' = [loop_tasks EXCEPT ![i].read =
                         [callback |-> status_callback, intervals |-> status_intervals]]
    /\ UNCHANGED <<status_task, status_callback, status_intervals, registered>>
    /\ UNCHANGED beyond_register

\* ------------------------------------------- callers of get_server_status

\* The tasks that call get_server_status, once each.
StatusCallers == {"first", "second", "third"}

\* A task that has not called.
NotCalled ==
    [ pc            |-> "idle",
      force_refresh |-> FALSE,
      behind        |-> "none",    \* who held the lock the call had to wait for
      fetched       |-> FALSE,     \* whether the call went on to fetch
      data          |-> FALSE,     \* whether one of the two sources gave data
      raised        |-> "none",
      returned      |-> NoStatus ]

AskInit ==
    /\ callers = [c \in StatusCallers |-> NotCalled]
    /\ status_fetches = 0

\* get_server_status, api.py:206: there is nothing to build a status from
\* when the official API gave no data and the status page gave none.
MergedNeedsBoth(api, page) == IF api /\ page THEN "data" ELSE "nothing"
Merged(api, page) == IF ~api /\ ~page THEN "nothing" ELSE "data"

\* get_server_status, api.py:165-175, once the lock is held: the cached
\* status is returned, or the fetch begins.
Entered(c, force_refresh) ==
    IF UsesCached(force_refresh)
    THEN [callers[c] EXCEPT !.pc = "done", !.force_refresh = force_refresh,
                            !.returned = server_status]
    ELSE [callers[c] EXCEPT !.pc = "fetching", !.force_refresh = force_refresh,
                            !.fetched = TRUE]

\* get_server_status(force_refresh=...) is called, api.py:165-175.
CallStatus(c, force_refresh) ==
    /\ callers[c].pc = "idle"
    /\ IF StatusLockFree
       THEN /\ callers' = [callers EXCEPT ![c] = Entered(c, force_refresh)]
            /\ status_lock' = IF UsesCached(force_refresh) THEN status_lock ELSE Taken(c)
            /\ status_fetches' = IF UsesCached(force_refresh) THEN status_fetches
                                 ELSE status_fetches + 1
       ELSE /\ callers' = [callers EXCEPT ![c].pc = "waiting",
                                          ![c].force_refresh = force_refresh,
                                          ![c].behind = status_lock.holder]
            /\ status_lock' = Queued(c)
            /\ UNCHANGED status_fetches
    /\ UNCHANGED <<status_now, server_status, monitor, asker, dispatched>>
    /\ UNCHANGED beyond_ask

\* The lock is handed to a waiting caller, api.py:165-175.
CallerGranted(c) ==
    /\ callers[c].pc = "waiting"
    /\ NextInLine(c)
    /\ callers' = [callers EXCEPT ![c] = Entered(c, callers[c].force_refresh)]
    /\ status_lock' = IF UsesCached(callers[c].force_refresh)
                      THEN [holder |-> "none", queue |-> Tail(status_lock.queue)]
                      ELSE Handed(c)
    /\ status_fetches' = IF UsesCached(callers[c].force_refresh) THEN status_fetches
                         ELSE status_fetches + 1
    /\ UNCHANGED <<status_now, server_status, monitor, asker, dispatched>>
    /\ UNCHANGED beyond_ask

\* get_server_status, api.py:175-215: both sources have answered.
CallerFetched(c, api, page, health) ==
    /\ callers[c].pc = "fetching"
    /\ LET got == Fetched(Merged(api, page), health)
       IN /\ server_status' = got.stored
          /\ callers' = [callers EXCEPT ![c].pc = "done", ![c].data = (api \/ page),
                                        ![c].raised = got.raised,
                                        ![c].returned = got.status]
    /\ status_lock' = Released
    /\ UNCHANGED <<status_now, monitor, asker, dispatched, status_fetches>>
    /\ UNCHANGED beyond_ask

\* ---------------------------------------------- get_matches and get_players

\* The ids an input may name: 1..MaxBatch, and 0.
MaxBatch == 21

\* api.py:858 and api.py:578: the ids one getmatchdetailsbatch and one
\* getplayerbatch request carry at most.
MATCH_CHUNK == 10
PLAYER_CHUNK == 20

\* The position of a value in a list: list.index(value).
Index(list, value) == CHOOSE i \in 1..Len(list) : list[i] = value /\ \A j \in 1..(i - 1) : list[j] # value
Has(list, value) == \E i \in 1..Len(list) : list[i] = value
Reversed(list) == [i \in 1..Len(list) |-> list[Len(list) + 1 - i]]

\* utils.py:75: list(OrderedDict.fromkeys(iterable)): the first occurrence
\* of every value, in order.
RECURSIVE FromKeysFrom(_, _, _)
FromKeysFrom(iterable, i, keys) ==
    IF i > Len(iterable) THEN keys
    ELSE FromKeysFrom(iterable, i + 1,
                      IF Has(keys, iterable[i]) THEN keys ELSE Append(keys, iterable[i]))
FromKeys(iterable) == FromKeysFrom(iterable, 1, <<>>)

\* utils.py:77: list.remove(value): the first occurrence goes.
Remove(list, value) ==
    LET i == Index(list, value)
    IN SubSeq(list, 1, i - 1) \o SubSeq(list, i + 1, Len(list))

\* utils.py:54-78: _deduplicate(iterable, *to_remove).
RECURSIVE Without(_, _, _)
Without(no_dups, to_remove, n) ==
    IF n > Len(to_remove) THEN no_dups
    ELSE Without(IF Has(no_dups, to_remove[n]) THEN Remove(no_dups, to_remove[n])
                 ELSE no_dups,
                 to_remove, n + 1)
Deduplicate(iterable, to_remove) == Without(FromKeys(iterable), to_remove, 1)

\* utils.py:979-997: chunk(list_to_chunk, chunk_length): the chunks in
\* order, the last one possibly shorter.
ChunkOverlapping(list_to_chunk, chunk_length) ==
    [ i \in 1..((Len(list_to_chunk) + chunk_length - 1) \div chunk_length) |->
        SubSeq(list_to_chunk, (i - 1) * chunk_length + 1,
               Min(i * chunk_length + 1, Len(list_to_chunk))) ]
Chunk(list_to_chunk, chunk_length) ==
    [ i \in 1..((Len(list_to_chunk) + chunk_length - 1) \div chunk_length) |->
        SubSeq(list_to_chunk, (i - 1) * chunk_length + 1,
               Min(i * chunk_length, Len(list_to_chunk))) ]

\* utils.py:260-285: group_by(iterable, key) with key = the "Match" field:
\* the keys in the order they first appear, each with its records.
GroupBy(response) ==
    LET keys == FromKeys([i \in 1..Len(response) |-> response[i].Match])
    IN [ k \in 1..Len(keys) |->
           [ id |-> keys[k],
             records |-> Len(SelectSeq(response, LAMBDA r : r.Match = keys[k])) ] ]

\* api.py:861-862: a record of the response has an error message.
ErrorInFirst(response) == response # <<>> /\ response[1].ret_msg # ""
ErrorIn(response) == \E i \in 1..Len(response) : response[i].ret_msg # ""

\* api.py:581-592: the players made of a getplayerbatch response: a Player
\* for a record without a message, a private PartialPlayer for a record
\* whose message names a playerId when return_private is set, nothing else.
RECURSIVE PlayersFrom(_, _, _, _)
PlayersFrom(response, return_private, i, chunk_players) ==
    IF i > Len(response) THEN chunk_players
    ELSE PlayersFrom(response, return_private, i + 1,
            IF response[i].ret_msg = ""
            THEN Append(chunk_players, [id |-> response[i].Id, type |-> "Player"])
            ELSE IF return_private /\ response[i].ret_msg = "private"
            THEN Append(chunk_players, [id |-> response[i].Id, type |-> "PartialPlayer"])
            ELSE chunk_players)
PlayersOf(response, return_private) == PlayersFrom(response, return_private, 1, <<>>)

\* api.py:593: chunk_players.sort(key=lambda p: chunk_ids.index(p.id)).
RECURSIVE SortedByIndex(_, _)
Unsorted(players, chunk_ids) == players
SortedByIndex(players, chunk_ids) ==
    IF players = <<>> THEN <<>>
    ELSE LET least == CHOOSE i \in 1..Len(players) :
                 /\ \A j \in 1..Len(players) :
                       Index(chunk_ids, players[i].id) <= Index(chunk_ids, players[j].id)
                 /\ \A j \in 1..(i - 1) :
                       Index(chunk_ids, players[j].id) # Index(chunk_ids, players[i].id)
         IN <<players[least]>> \o
            SortedByIndex(SubSeq(players, 1, least - 1) \o
                          SubSeq(players, least + 1, Len(players)), chunk_ids)

\* The inputs tried: the ids 1..k, rising or falling, with or without
\* repeated ids behind them and with or without the id 0 around them.
Rising(k) == [i \in 1..k |-> i]
Input(k, falling, repeated, zero) ==
    LET base == IF falling THEN Reversed(Rising(k)) ELSE Rising(k)
    IN (IF zero THEN <<0>> ELSE <<>>)
       \o base
       \o (IF repeated /\ k > 0 THEN <<base[k], base[1]>> ELSE <<>>)
       \o (IF zero /\ repeated THEN <<0>> ELSE <<>>)
Inputs ==
    { Input(k, f, r, z) : k \in 0..MaxBatch, f \in BOOLEAN, r \in BOOLEAN, z \in BOOLEAN }

\* What the upstream answers to a request for the ids of a chunk.  It lists
\* them as asked, the other way round, or (matches, which have two records
\* each) the first records as asked and then the second ones the other way
\* round; and it treats one id, the first or the last asked, apart: it has
\* no record of it, or a record with a message.
Orders == {"asked", "reversed", "interleaved"}
Which == {"none", "first", "last"}
Special(chunk_ids, which) ==
    CASE which = "none" -> 0 - 1
      [] which = "first" -> chunk_ids[1]
      [] which = "last" -> chunk_ids[Len(chunk_ids)]
Listed(chunk_ids, order, which, kind) ==
    LET there == IF kind = "missing"
                 THEN SelectSeq(chunk_ids, LAMBDA id : id # Special(chunk_ids, which))
                 ELSE chunk_ids
    IN IF order = "asked" THEN there ELSE Reversed(there)
MatchRecord(id, player, message) == [Match |-> id, playerId |-> player, ret_msg |-> message]
MatchResponse(chunk_ids, order, which, kind) ==
    LET ids == Listed(chunk_ids, order, which, kind)
        message(id) == IF kind = "message" /\ id = Special(chunk_ids, which)
                       THEN "error" ELSE ""
        firsts == [i \in 1..Len(ids) |-> MatchRecord(ids[i], 1, message(ids[i]))]
        seconds == [i \in 1..Len(ids) |-> MatchRecord(ids[i], 2, message(ids[i]))]
        paired == [i \in 1..(2 * Len(ids)) |->
                      IF i % 2 = 1 THEN firsts[(i + 1) \div 2] ELSE seconds[i \div 2]]
    IN IF order = "interleaved" THEN Reversed(firsts) \o seconds ELSE paired
PlayerResponse(chunk_ids, order, which, kind) ==
    LET ids == Listed(chunk_ids, order, which, kind)
    IN [ i \in 1..Len(ids) |->
           [ Id |-> ids[i],
             ret_msg |-> IF kind = "message" /\ ids[i] = Special(chunk_ids, which)
                         THEN "private" ELSE "" ] ]

\* No call.
NoBatch ==
    [ op             |-> "none",     \* get_matches or get_players
      pc             |-> "idle",
      input          |-> <<>>,       \* match_ids, player_ids
      return_private |-> FALSE,
      expand_players |-> FALSE,
      ids_list       |-> <<>>,
      sent           |-> <<>>,       \* the id lists of the requests sent
      asked          |-> <<>>,       \* the id lists of the getplayerbatch requests
                                     \* get_matches sent to expand players
      players        |-> {},         \* the ids of the players dictionary
      pending        |-> <<>>,       \* bunched_matches while the players are fetched
      has_entry      |-> FALSE,      \* _fetch_entry returned an entry, not None
      silent         |-> {},         \* the ids the upstream had no record of
      messages       |-> {},         \* the ids it had a record with a message of
      result         |-> <<>>,       \* matches, player_list
      raised         |-> "none" ]

BatchInit == batch = NoBatch

\* api.py:836-851: get_matches(match_ids, expand_players=...) up to its
\* first await, the one of _fetch_entry; a call without ids returns at once.
GetMatches(match_ids, expand_players) ==
    /\ batch.pc = "idle"
    /\ LET ids_list == Deduplicate(match_ids, <<>>)
       IN batch' = [batch EXCEPT !.op = "get_matches",
                                 !.input = match_ids,
                                 !.expand_players = expand_players,
                                 !.ids_list = ids_list,
                                 !.pc = IF ids_list = <<>> THEN "returned" ELSE "entry"]
    /\ UNCHANGED beyond_batch

\* api.py:851-859: _fetch_entry has returned: the request for the first
\* chunk is sent.
BatchEntryFetched(has_entry) ==
    /\ batch.pc = "entry"
    /\ batch' = [batch EXCEPT !.pc = "requesting", !.has_entry = has_entry]
    /\ UNCHANGED beyond_batch

\* api.py:565-577: get_players(player_ids, return_private=...) up to the
\* first request.
GetPlayers(player_ids, return_private) ==
    /\ batch.pc = "idle"
    /\ LET ids_list == Deduplicate(player_ids, <<0>>)
       IN batch' = [batch EXCEPT !.op = "get_players",
                                 !.input = player_ids,
                                 !.return_private = return_private,
                                 !.ids_list = ids_list,
                                 !.pc = IF ids_list = <<>> THEN "returned" ELSE "requesting"]
    /\ UNCHANGED beyond_batch

\* The chunk the next request is for, and whether it is the last one.
NextChunk(chunk_length) == Chunk(batch.ids_list, chunk_length)[Len(batch.sent) + 1]
LastChunk(chunk_length) == Len(batch.sent) + 1 = Len(Chunk(batch.ids_list, chunk_length))

\* What a response adds to the ids the upstream said nothing of, or had a
\* message for.
Noted(chunk_ids, which, kind, as) ==
    IF which # "none" /\ kind = as THEN {Special(chunk_ids, which)} ELSE {}

\* api.py:870-875: the ids get_matches hands to get_players: those of the
\* records whose player is not in the players dictionary yet; api.py:565 drops
\* the repeated ones and the id 0.
PlayerIds(response, players) ==
    LET records == SelectSeq(response, LAMBDA r : r.playerId \notin players)
    IN Deduplicate([i \in 1..Len(records) |-> records[i].playerId], <<0>>)

\* api.py:876-882: the matches of the chunk are built and added, and the loop
\* goes on to the next chunk or the call returns.
Extended(call) ==
    IF call.pending # <<>> /\ Building(call.has_entry) # "none"
    THEN [call EXCEPT !.pending = <<>>,
                      !.pc = "raised",
                      !.raised = Building(call.has_entry)]
    ELSE [call EXCEPT !.result = @ \o call.pending,
                      !.pending = <<>>,
                      !.pc = IF Len(call.sent) = Len(Chunk(call.ids_list, MATCH_CHUNK))
                             THEN "returned" ELSE "requesting"]

\* api.py:859-882: the request for the next chunk is answered: a record with
\* a message raises; with expand_players the call goes on to await
\* get_players, which sends a request unless it has no id to ask for;
\* otherwise the matches are built.
MatchesAnswered(order, which, kind) ==
    /\ batch.op = "get_matches"
    /\ batch.pc = "requesting"
    /\ LET chunk_ids == NextChunk(MATCH_CHUNK)
           response == MatchResponse(chunk_ids, order, which, kind)
           player_ids == PlayerIds(response, batch.players)
           answered == [batch EXCEPT
                           !.sent = Append(@, chunk_ids),
                           !.silent = @ \cup Noted(chunk_ids, which, kind, "missing"),
                           !.messages = @ \cup Noted(chunk_ids, which, kind, "message"),
                           !.pending = GroupBy(response)]
       IN batch' =
            IF ErrorIn(response)
            THEN [batch EXCEPT !.sent = Append(@, chunk_ids),
                               !.messages = @ \cup Noted(chunk_ids, which, kind, "message"),
                               !.pc = "raised",
                               !.raised = "HTTPException"]
            ELSE IF batch.expand_players /\ player_ids # <<>>
            THEN [answered EXCEPT !.asked = Append(@, player_ids), !.pc = "players"]
            ELSE Extended(answered)
    /\ UNCHANGED beyond_batch

\* api.py:875-882: the getplayerbatch request of get_players is answered
\* with the records of some of the players asked for: they join the players
\* dictionary and the matches of the chunk are built.
ExpandPlayersAnswered(found) ==
    /\ batch.pc = "players"
    /\ found \subseteq {batch.asked[Len(batch.asked)][i] :
                            i \in 1..Len(batch.asked[Len(batch.asked)])}
    /\ batch' = Extended([batch EXCEPT !.players = @ \cup found])
    /\ UNCHANGED beyond_batch

\* api.py:578-595: one turn of the loop of get_players.
PlayersAnswered(order, which, kind) ==
    /\ batch.op = "get_players"
    /\ batch.pc = "requesting"
    /\ LET chunk_ids == NextChunk(PLAYER_CHUNK)
           response == PlayerResponse(chunk_ids, order, which, kind)
           chunk_players == PlayersOf(response, batch.return_private)
       IN batch' =
            [batch EXCEPT !.sent = Append(@, chunk_ids),
                          !.silent = @ \cup Noted(chunk_ids, which, kind, "missing"),
                          !.messages = @ \cup Noted(chunk_ids, which, kind, "message"),
                          !.result = @ \o SortedByIndex(chunk_players, chunk_ids),
                          !.pc = IF LastChunk(PLAYER_CHUNK) THEN "returned"
                                 ELSE "requesting"]
    /\ UNCHANGED beyond_batch

\* api.py:579, api.py:859 and api.py:875: the request that was sent raises,
\* which ends the call with that exception.
BatchRequestFails(exc) ==
    /\ batch.pc \in {"requesting", "players"}
    /\ batch' = [batch EXCEPT
                    !.sent = IF batch.pc = "players" THEN @
                             ELSE Append(@, NextChunk(IF batch.op = "get_matches"
                                                      THEN MATCH_CHUNK ELSE PLAYER_CHUNK)),
                    !.pending = <<>>,
                    !.pc = "raised",
                    !.raised = exc]
    /\ UNCHANGED beyond_batch

\* ------------------------------------------------------------- Expandable

\* The awaits tried on one object.
MaxAwaits == 3

\* No object yet.
NoPartial == [class |-> "none", id |-> 0, private |-> FALSE]

\* player.py:53-73 and match.py:49: the objects tried.  A PartialMatch has
\* no private flag.
Partials ==
    { [class |-> "PartialPlayer", id |-> i, private |-> p] : i \in 0..2, p \in BOOLEAN }
    \cup { [class |-> "PartialMatch", id |-> i, private |-> FALSE] : i \in 1..2 }

\* What the upstream answers to getplayer or getmatchdetails: an empty
\* list, a record with an error message, a record without one; or the
\* request raises.
Answers == {"empty", "message", "data"} \cup RequestExceptions

\* player.py:150-162: PartialPlayer.private.
IsPrivateByFlag(self) == self.private
IsPrivate(self) == self.private \/ self.id = 0

\* player.py:92-93: _expand raises Private before any request; match.py:
\* 155-156 has no such test.
RaisesAtOnce(self) == self.class = "PartialPlayer" /\ IsPrivate(self)

\* player.py:95-102: PartialPlayer._expand once the request is answered.
ExpandPlayer(response) ==
    CASE response \in RequestExceptions -> response
      [] response = "empty" -> "NotFound"
      [] response = "message" -> "Private"
      [] response = "data" -> "Player"

\* match.py:156-159: PartialMatch._expand once the request is answered: it
\* ends with the exception of the request or with NotFound, or goes on to
\* await _fetch_entry; the error messages of the records are not looked at.
ExpandMatch(response) ==
    CASE response \in RequestExceptions -> response
      [] response = "empty" -> "NotFound"
      [] OTHER -> "none"

\* Expandable.__await__: the await is the one of the coroutine _expand()
\* makes, so the awaiting caller gets what _expand returns or raises.
Awaited(expanded) == expanded

ExpandInit == partial = NoPartial /\ awaits = <<>>

\* player.py:53-73, match.py:139: an object is made.
MakePartial(object) ==
    /\ partial = NoPartial
    /\ partial' = object
    /\ UNCHANGED awaits
    /\ UNCHANGED beyond_expand

\* `await partial`, up to the response of the request _expand sends.
AwaitPartial ==
    /\ partial # NoPartial
    /\ Len(awaits) < MaxAwaits
    /\ awaits' = Append(awaits,
          IF RaisesAtOnce(partial)
          THEN [pc |-> "done", sent |-> 0, answer |-> "none",
                expanded |-> "Private", got |-> Awaited("Private")]
          ELSE [pc |-> "requesting", sent |-> 1, answer |-> "none",
                expanded |-> "none", got |-> "none"])
    /\ UNCHANGED partial
    /\ UNCHANGED beyond_expand

\* player.py:96-102, match.py:156-159: the request of an await is answered:
\* _expand ends, or, for a match with records, awaits _fetch_entry.
ExpandAnswered(n, response) ==
    /\ n \in 1..Len(awaits)
    /\ awaits[n].pc = "requesting"
    /\ LET expanded == IF partial.class = "PartialPlayer" THEN ExpandPlayer(response)
                       ELSE ExpandMatch(response)
       IN awaits' = [awaits EXCEPT ![n] =
                        IF expanded = "none"
                        THEN [@ EXCEPT !.pc = "entry", !.answer = response]
                        ELSE [@ EXCEPT !.pc = "done",
                                       !.answer = response,
                                       !.expanded = expanded,
                                       !.got = Awaited(expanded)]]
    /\ UNCHANGED partial
    /\ UNCHANGED beyond_expand

\* match.py:159-160: _fetch_entry has returned and the Match is built.
ExpandEntryFetched(n, has_entry) ==
    /\ n \in 1..Len(awaits)
    /\ awaits[n].pc = "entry"
    /\ LET expanded == IF Building(has_entry) = "none" THEN "Match"
                       ELSE Building(has_entry)
       IN awaits' = [awaits EXCEPT ![n] = [@ EXCEPT !.pc = "done",
                                                    !.expanded = expanded,
                                                    !.got = Awaited(expanded)]]
    /\ UNCHANGED partial
    /\ UNCHANGED beyond_expand

\* ------------------------------------------------ matches of a queue by time

\* utils.py:136-138: the three windows of the getmatchidsbyqueue endpoint,
\* in minutes.  Time is counted in minutes from a midnight.
ONE_DAY == 1440
ONE_HOUR == 60
TEN_MINUTES == 10

\* datetime.hour and datetime.minute.
HourOf(dt) == (dt % ONE_DAY) \div ONE_HOUR
MinuteOf(dt) == dt % ONE_HOUR

\* utils.py:123-128: _floor_dt and _ceil_dt.
CeilDtAsFloor(dt, td) == dt - (dt % td)
FloorDt(dt, td) == dt - (dt % td)
CeilDt(dt, td) == dt + ((td - (dt % td)) % td)

\* What _date_gen yields for a day, an hour or a ten minute slot met at dt:
\* the date, and the hour parameter "-1", "h" or "h,mm".
Yield(dt, td) ==
    [ date   |-> dt \div ONE_DAY,
      hour   |-> IF td = ONE_DAY THEN 0 - 1 ELSE HourOf(dt),
      minute |-> IF td = TEN_MINUTES THEN MinuteOf(dt) ELSE 0 - 1 ]

\* The time a yielded window begins at and its length, as the endpoint reads
\* the date and hour parameters.
Begin(window) ==
    window.date * ONE_DAY
    + (IF window.hour < 0 THEN 0 ELSE window.hour * ONE_HOUR)
    + (IF window.minute < 0 THEN 0 ELSE window.minute)
Length(window) ==
    IF window.hour < 0 THEN ONE_DAY
    ELSE IF window.minute < 0 THEN ONE_HOUR ELSE TEN_MINUTES

\* utils.py:184-220: the loops of the forward direction:
\*     while start < limit: yield; start += td; [if start >= end: return]
RECURSIVE Up(_, _, _, _)
Up(gen, limit, td, inner) ==
    IF gen.returned \/ ~(gen.start < limit) THEN gen
    ELSE Up([gen EXCEPT !.out = Append(@, Yield(gen.start, td)),
                        !.start = @ + td,
                        !.returned = inner /\ gen.start + td >= gen.end],
            limit, td, inner)

\* utils.py:147-183: the loops of the reverse direction:
\*     while end > limit: end -= td; yield; [if end <= start: return]
RECURSIVE Down(_, _, _, _)
Down(gen, limit, td, inner) ==
    IF gen.returned \/ ~(gen.end > limit) THEN gen
    ELSE Down([gen EXCEPT !.out = Append(@, Yield(gen.end - td, td)),
                          !.end = @ - td,
                          !.returned = inner /\ gen.end - td <= gen.start],
              limit, td, inner)

\* The `if start >= end: return` (`if end <= start: return`) after a loop.
Return(gen) == [gen EXCEPT !.returned = @ \/ gen.start >= gen.end]

\* utils.py:184-220: _date_gen, reverse=False, from the rounded times on.
Forward(gen) ==
    LET g1 == IF MinuteOf(gen.start) > 0
              THEN Up(gen, CeilDt(gen.start, ONE_HOUR), TEN_MINUTES, TRUE)
              ELSE gen
        g2 == IF ~g1.returned /\ HourOf(g1.start) > 0
                 /\ CeilDt(g1.start, ONE_DAY) <= g1.end
              THEN Up(g1, CeilDt(g1.start, ONE_DAY), ONE_HOUR, TRUE)
              ELSE g1
        g3 == IF g2.returned THEN g2
              ELSE Return(Up(g2, FloorDt(g2.end, ONE_DAY), ONE_DAY, FALSE))
        g4 == IF ~g3.returned /\ HourOf(g3.end) > 0
              THEN Return(Up(g3, FloorDt(g3.end, ONE_HOUR), ONE_HOUR, FALSE))
              ELSE g3
    IN IF g4.returned THEN g4 ELSE Up(g4, g4.end, TEN_MINUTES, FALSE)

\* utils.py:147-183: _date_gen, reverse=True, from the rounded times on.
Backward(gen) ==
    LET g1 == IF MinuteOf(gen.end) > 0
              THEN Down(gen, FloorDt(gen.end, ONE_HOUR), TEN_MINUTES, TRUE)
              ELSE gen
        g2 == IF ~g1.returned /\ HourOf(g1.end) > 0
                 /\ FloorDt(g1.end, ONE_DAY) >= g1.start
              THEN Down(g1, FloorDt(g1.end, ONE_DAY), ONE_HOUR, TRUE)
              ELSE g1
        g3 == IF g2.returned THEN g2
              ELSE Return(Down(g2, CeilDt(g2.start, ONE_DAY), ONE_DAY, FALSE))
        g4 == IF ~g3.returned /\ HourOf(g3.start) > 0
              THEN Return(Down(g3, CeilDt(g3.start, ONE_HOUR), ONE_HOUR, FALSE))
              ELSE g3
    IN IF g4.returned THEN g4 ELSE Down(g4, g4.start, TEN_MINUTES, FALSE)

\* utils.py:132-220: _date_gen(start, end, reverse=...): the windows it
\* yields, in order.
DateGen(start, end, reverse) ==
    LET gen == [ start |-> FloorDt(start, TEN_MINUTES),
                 end |-> CeilDt(end, TEN_MINUTES),
                 out |-> <<>>,
                 returned |-> FALSE ]
    IN IF gen.start >= gen.end THEN <<>>
       ELSE IF reverse THEN Backward(gen).out ELSE Forward(gen).out

\* The times tried for start and end, over three days: midnights, round
\* hours, round ten minutes and times in between.
Times ==
    { 0, 10, 25, 60, 135, 1380, 1430, 1440, 1445, 1470, 1500, 1620, 2870, 2880, 2900,
      2940, 4320 }

\* The times tried for the start and the end of get_matches_for_queue.
QueueTimes == {0, 25, 135, 1440, 1445, 1500, 2900}

\* The matches the upstream knows for the queue: when each entered, and
\* whether it is still going on (Active_Flag).  Ids do not follow the time.
World ==
    << [id |-> 1, stamp |-> 1445, active |-> FALSE],
       [id |-> 2, stamp |-> 25, active |-> FALSE],
       [id |-> 3, stamp |-> 1500, active |-> FALSE],
       [id |-> 4, stamp |-> 21, active |-> FALSE],
       [id |-> 5, stamp |-> 2880, active |-> FALSE],
       [id |-> 6, stamp |-> 130, active |-> FALSE],
       [id |-> 7, stamp |-> 1441, active |-> FALSE],
       [id |-> 8, stamp |-> 25, active |-> FALSE],
       [id |-> 9, stamp |-> 1442, active |-> TRUE],
       [id |-> 10, stamp |-> 2900, active |-> FALSE],
       [id |-> 11, stamp |-> 0, active |-> FALSE],
       [id |-> 12, stamp |-> 1439, active |-> FALSE] >>

\* What getmatchidsbyqueue answers for a window: the matches that
\* entered in it, by rising or by falling id.
QueueResponse(window, falling) ==
    LET inside == SelectSeq(World, LAMBDA m :
                      m.stamp >= Begin(window) /\ m.stamp < Begin(window) + Length(window))
    IN IF falling THEN Reversed(inside) ELSE inside

\* api.py:986-999: sorted(... if Active_Flag == 'n', key=itemgetter(1),
\* reverse=reverse): a stable sort by the time of entry.
RECURSIVE SortedByStamp(_, _)
SortedByStamp(infos, reverse) ==
    IF infos = <<>> THEN <<>>
    ELSE LET first == CHOOSE i \in 1..Len(infos) :
                 /\ \A j \in 1..Len(infos) :
                       IF reverse THEN infos[i].stamp >= infos[j].stamp
                       ELSE infos[i].stamp <= infos[j].stamp
                 /\ \A j \in 1..(i - 1) : infos[j].stamp # infos[i].stamp
         IN <<infos[first]>> \o
            SortedByStamp(SubSeq(infos, 1, first - 1) \o
                          SubSeq(infos, first + 1, Len(infos)), reverse)
Processed(queue_response, reverse) ==
    SortedByStamp(SelectSeq(queue_response, LAMBDA m : ~m.active), reverse)

\* api.py:1000-1012: the ids gathered: the loop ends at the first time past
\* the far end and skips the times before the near end.
RECURSIVE GatherFrom(_, _, _, _, _, _)
GatherFrom(processed, i, start, end, reverse, match_ids) ==
    IF i > Len(processed) THEN match_ids
    ELSE IF reverse
    THEN IF processed[i].stamp < start THEN match_ids
         ELSE GatherFrom(processed, i + 1, start, end, reverse,
                         IF processed[i].stamp <= end
                         THEN Append(match_ids, processed[i].id) ELSE match_ids)
    ELSE IF processed[i].stamp > end THEN match_ids
         ELSE GatherFrom(processed, i + 1, start, end, reverse,
                         IF processed[i].stamp >= start
                         THEN Append(match_ids, processed[i].id) ELSE match_ids)
Gather(processed, start, end, reverse) == GatherFrom(processed, 1, start, end, reverse, <<>>)

\* api.py:1014-1042: the matches of a chunk: the upstream lists them in its
\* own order, and chunked_matches.sort(key=chunk_ids.index) puts them in
\* the order of the ids.
ChunkUnsorted(chunk_ids, falling) ==
    LET found == SelectSeq(World, LAMBDA m : Has(chunk_ids, m.id))
    IN IF falling THEN Reversed(found) ELSE found
ChunkMatches(chunk_ids, falling) ==
    LET found == SelectSeq(World, LAMBDA m : Has(chunk_ids, m.id))
    IN SortedByIndex(IF falling THEN Reversed(found) ELSE found, chunk_ids)

\* No call.
NoQueueCall ==
    [ op       |-> "none",    \* get_matches_for_queue, or _date_gen alone
      pc       |-> "idle",
      start    |-> 0,
      end      |-> 0,
      reverse  |-> FALSE,
      dates    |-> <<>>,      \* the windows _date_gen yields
      at       |-> 0,         \* the windows asked for so far
      chunks   |-> <<>>,      \* the chunks of the window's ids not asked for yet
      pending  |-> <<>>,      \* the matches of the chunk not yielded yet
      requests |-> 0,         \* the upstream requests answered
      yielded  |-> <<>>,      \* the matches yielded
      expand_players |-> FALSE,
      has_entry |-> FALSE,    \* _fetch_entry returned an entry, not None
      players  |-> {},        \* the ids of the players dictionary
      raised   |-> "none" ]

QueueInit == queue_call = NoQueueCall

\* utils.py:132-220: _date_gen called as it is.
DateGenCall(start, end, reverse) ==
    /\ queue_call.pc = "idle"
    /\ queue_call' = [queue_call EXCEPT !.op = "_date_gen",
                                        !.pc = "done",
                                        !.start = start,
                                        !.end = end,
                                        !.reverse = reverse,
                                        !.dates = DateGen(start, end, reverse)]
    /\ UNCHANGED beyond_queue

\* api.py:959-976: get_matches_for_queue up to its first await, the one of
\* _fetch_entry; a call with end < start ends before it.
GetMatchesForQueue(start, end, reverse, expand_players) ==
    /\ queue_call.pc = "idle"
    /\ queue_call' = [queue_call EXCEPT !.op = "get_matches_for_queue",
                                        !.pc = IF end < start THEN "done" ELSE "entry",
                                        !.start = start,
                                        !.end = end,
                                        !.reverse = reverse,
                                        !.expand_players = expand_players]
    /\ UNCHANGED beyond_queue

\* api.py:984-1042: the generator runs on to where it next waits: at the
\* yield of the chunk's next match, at the request for the window's next
\* chunk, at the request for the next window's ids, or at its end.
RunOn(call) ==
    IF call.pending # <<>>
    THEN [call EXCEPT !.pc = "yielded",
                      !.yielded = Append(@, Head(call.pending)),
                      !.pending = Tail(@)]
    ELSE IF call.chunks # <<>> THEN [call EXCEPT !.pc = "fetching"]
    ELSE IF call.at < Len(call.dates) THEN [call EXCEPT !.pc = "iterating"]
    ELSE [call EXCEPT !.pc = "done"]

\* api.py:976-985: _fetch_entry has returned: the windows are generated and
\* the ids of the first one asked for.
QueueEntryFetched(has_entry) ==
    /\ queue_call.pc = "entry"
    /\ queue_call' =
          RunOn([queue_call EXCEPT
                    !.has_entry = has_entry,
                    !.dates = DateGen(queue_call.start, queue_call.end, queue_call.reverse)])
    /\ UNCHANGED beyond_queue

\* api.py:984-1013: getmatchidsbyqueue is answered for the window: its ids
\* are sorted, gathered and cut into chunks.
IdsAnswered(falling) ==
    /\ queue_call.pc = "iterating"
    /\ LET window == queue_call.dates[queue_call.at + 1]
           processed == Processed(QueueResponse(window, falling), queue_call.reverse)
           match_ids == Gather(processed, queue_call.start, queue_call.end,
                               queue_call.reverse)
       IN queue_call' = RunOn([queue_call EXCEPT !.at = @ + 1,
                                                 !.requests = @ + 1,
                                                 !.chunks = Chunk(match_ids, MATCH_CHUNK)])
    /\ UNCHANGED beyond_queue

\* api.py:1036-1042: the matches of the chunk are built, which raises with
\* no entry, and the first of them is yielded.
ChunkBuilt(call) ==
    IF call.pending # <<>> /\ Building(call.has_entry) # "none"
    THEN [call EXCEPT !.pc = "raised", !.pending = <<>>,
                      !.raised = Building(call.has_entry)]
    ELSE RunOn(call)

\* api.py:1014-1042: getmatchdetailsbatch is answered for a chunk, every
\* match with the records of the players 1 and 2: with expand_players the
\* players not in the dictionary yet are asked for (api.py:1029-1035),
\* otherwise the matches are built.
ChunkAnswered(falling) ==
    /\ queue_call.pc = "fetching"
    /\ LET answered == [queue_call EXCEPT
                           !.requests = @ + 1,
                           !.pending = ChunkMatches(Head(queue_call.chunks), falling),
                           !.chunks = Tail(@)]
       IN queue_call' =
            IF queue_call.expand_players /\ {1, 2} \ queue_call.players # {}
            THEN [answered EXCEPT !.pc = "players"]
            ELSE ChunkBuilt(answered)
    /\ UNCHANGED beyond_queue

\* match.py:39-46, api.py:1035-1042: getplayerbatch is answered with the
\* records of some of the players asked for, and the matches are built.
QueuePlayersAnswered(found) ==
    /\ queue_call.pc = "players"
    /\ found \subseteq {1, 2} \ queue_call.players
    /\ queue_call' = ChunkBuilt([queue_call EXCEPT !.requests = @ + 1,
                                                   !.players = @ \cup found])
    /\ UNCHANGED beyond_queue

\* api.py:985, 1015 and match.py:40: the request that was sent raises, which
\* ends the generator with that exception.
QueueRequestFails(exc) ==
    /\ queue_call.pc \in {"iterating", "fetching", "players"}
    /\ queue_call' = [queue_call EXCEPT !.pc = "raised",
                                        !.requests = @ + 1,
                                        !.pending = <<>>,
                                        !.raised = exc]
    /\ UNCHANGED beyond_queue

\* The consumer asks for the next match: the generator goes on from the
\* yield, api.py:1041-1042.
AskNext ==
    /\ queue_call.pc = "yielded"
    /\ queue_call' = RunOn(queue_call)
    /\ UNCHANGED beyond_queue

\* The consumer leaves the loop at a match (tests/test_api.py:272-273): the
\* generator stays at the yield and sends nothing more.
LeaveLoop ==
    /\ queue_call.pc = "yielded"
    /\ queue_call' = [queue_call EXCEPT !.pc = "left"]
    /\ UNCHANGED beyond_queue

\* ------------------------------------------------------------------- enums

\* The operations tried on one enum class.
MaxEnumOps == 3

\* enums.py:36-42: _EnumBase.__new__(cls, name, value): a member; the
\* underscores of its name become spaces.
Spaced(s) == [i \in 1..Len(s) |-> IF s[i] = "_" THEN " " ELSE s[i]]
Member(name, value) == [name |-> Spaced(name), value |-> value]

\* The class bodies tried: three plain members; a member with an underscore
\* in its name; two names for one value.
Bodies ==
    { << <<<<"A">>, 1>>, <<<<"B">>, 2>>, <<<<"C">>, 3>> >>,
      << <<<<"C">>, 0>>, <<<<"A">>, 1>>, <<<<"A", "_", "B">>, 2>> >>,
      << <<<<"A">>, 1>>, <<<<"B">>, 1>> >> }

\* The attribute names tried.
AttrNames == {<<"A">>, <<"B">>, <<"C">>, <<"A", "_", "B">>, <<"c">>}

\* No class yet.
NoClass ==
    [ defined        |-> FALSE,
      immutable      |-> "absent",  \* the _immutable attribute: absent, or its value
      namespace      |-> <<>>,      \* the attributes of the class that are members
      name_mapping   |-> <<>>,
      value_mapping  |-> <<>>,
      member_mapping |-> <<>> ]

\* enums.py:127-150: the loop that creates the members of a class.
RECURSIVE Members(_, _, _)
Members(attrs, i, cls) ==
    IF i > Len(attrs) THEN cls
    ELSE LET k == attrs[i][1]
             v == attrs[i][2]
             known == HasKey(cls.value_mapping, v)
             m == IF known THEN DictGet(cls.value_mapping, v) ELSE Member(k, v)
             named == DictSet(cls.name_mapping, Lower(k), m)
         IN Members(attrs, i + 1,
               [cls EXCEPT
                  !.value_mapping = IF known THEN @ ELSE DictSet(@, v, m),
                  !.member_mapping = IF known THEN @ ELSE DictSet(@, k, m),
                  !.namespace = IF known THEN @ ELSE DictSet(@, k, m),
                  !.name_mapping = IF \E j \in 1..Len(k) : k[j] = "_"
                                   THEN DictSet(named, Spaced(Lower(k)), m)
                                   ELSE named])

\* enums.py:105-151: _EnumMeta.__new__: _immutable is set to False while
\* the members are made, and deleted at the end.
NewEnum(attrs) ==
    [Members(attrs, 1, [NoClass EXCEPT !.defined = TRUE, !.immutable = "False"])
        EXCEPT !.immutable = "absent"]

\* enums.py:160, 187, 192: getattr(cls, "_immutable", True).
ImmutableUnlessSet(cls) == cls.immutable = "True"
Immutable(cls) == IF cls.immutable = "absent" THEN TRUE ELSE cls.immutable = "True"

\* dict without a key.
DictDel(d, k) == SelectSeq(d, LAMBDA item : item[1] # k)

\* Nothing tried.
NoEnumOp == [op |-> "none", name |-> <<>>, raised |-> "none", returned |-> "none"]

EnumInit == enum_class = NoClass /\ enum_op = NoEnumOp /\ enum_ops = 0

\* enums.py:105-151: a class statement with the metaclass.
DefineEnum(attrs) ==
    /\ ~enum_class.defined
    /\ enum_class' = NewEnum(attrs)
    /\ UNCHANGED <<enum_op, enum_ops>>
    /\ UNCHANGED beyond_enum

Tried(op, name, raised, returned) ==
    /\ enum_class.defined
    /\ enum_ops < MaxEnumOps
    /\ enum_ops' = enum_ops + 1
    /\ enum_op' = [op |-> op, name |-> name, raised |-> raised, returned |-> returned]
    /\ UNCHANGED beyond_enum

\* enums.py:186-189: del cls.name.
DelAttr(name) ==
    /\ IF Immutable(enum_class)
       THEN /\ Tried("delattr", name, "AttributeError", "none")
            /\ UNCHANGED enum_class
       ELSE /\ Tried("delattr", name,
                     IF HasKey(enum_class.namespace, name) THEN "none" ELSE "AttributeError",
                     "none")
            /\ enum_class' = [enum_class EXCEPT !.namespace = DictDel(@, name)]

\* enums.py:191-194: cls.name = value, the value being no member.
SetAttr(name) ==
    /\ IF Immutable(enum_class)
       THEN /\ Tried("setattr", name, "AttributeError", "none")
            /\ UNCHANGED enum_class
       ELSE /\ Tried("setattr", name, "none", "none")
            /\ enum_class' = [enum_class EXCEPT !.namespace = DictSet(@, name, "test")]

\* enums.py:152-163: cls(name, value) with a value.
CallEnum(name, value) ==
    /\ IF Immutable(enum_class)
       THEN Tried("call", name, "TypeError", "none")
       ELSE Tried("call", name, "none", "member")
    /\ UNCHANGED enum_class

\* enums.py:47-63: member.name = ..., member.value = ...: name and value
\* are properties without a setter.
SetProperty(name, property) ==
    /\ HasKey(enum_class.member_mapping, name)
    /\ Tried(property, name, "AttributeError", "none")
    /\ UNCHANGED enum_class

\* ------------------------------------------------------------ bounty store

\* The items of a kind, active or not, a getbountyitems response lists at
\* most.
MaxBounty == 10

\* bounty.py:41-45: BountyItem(api, cache_entry, data) of the n-th record.
BountyItem(n, active) == [id |-> n, active |-> active]

\* A response that lists its active items first.
BountyResponse(actives, inactives) ==
    [n \in 1..(actives + inactives) |-> BountyItem(n, n <= actives)]

\* api.py:1088-1092: the index, from 0, of the first item that is not
\* active, and 0 when there is none.
RECURSIVE FirstInactiveFrom(_, _)
FirstInactiveFrom(items, i) ==
    IF i >= Len(items) THEN 0
    ELSE IF ~items[i + 1].active THEN i
    ELSE FirstInactiveFrom(items, i + 1)
FirstInactive(items) == FirstInactiveFrom(items, 0)

\* list[start::-1]: a negative start counts from the end, and one still
\* negative after that leaves nothing.
SliceDown(list, start) ==
    LET from == IF start < 0 THEN start + Len(list) ELSE start
        top == IF from >= Len(list) THEN Len(list) - 1 ELSE from
    IN IF top < 0 THEN <<>>
       ELSE [i \in 1..(top + 1) |-> list[top + 2 - i]]

\* list[start:] for a start from 0 to the length.
SliceFrom(list, start) == SubSeq(list, start + 1, Len(list))

\* api.py:1093: the tuple returned.
ActiveSlice(items, idx) == SliceDown(items, idx - Len(items) - 1)
PastSlice(items, idx) == SliceFrom(items, idx)

\* No call.
NoBounty ==
    [ pc |-> "idle", response |-> <<>>, active |-> <<>>, past |-> <<>>, raised |-> "none",
      has_entry |-> FALSE ]    \* _fetch_entry returned an entry, not None

BountyInit == bounty = NoBounty

\* api.py:1083: get_bounty up to its first await, the one of _fetch_entry.
GetBounty ==
    /\ bounty.pc = "idle"
    /\ bounty' = [bounty EXCEPT !.pc = "entry"]
    /\ UNCHANGED beyond_bounty

\* api.py:1083-1084: _fetch_entry has returned and the request is sent.
BountyEntryFetched(has_entry) ==
    /\ bounty.pc = "entry"
    /\ bounty' = [bounty EXCEPT !.pc = "requesting", !.has_entry = has_entry]
    /\ UNCHANGED beyond_bounty

\* api.py:1084: the request raises, which ends the call.
BountyRequestFails(exc) ==
    /\ bounty.pc = "requesting"
    /\ bounty' = [bounty EXCEPT !.pc = "raised", !.raised = exc]
    /\ UNCHANGED beyond_bounty

\* api.py:1084-1093: the request is answered and get_bounty ends.
BountyAnswered(response) ==
    /\ bounty.pc = "requesting"
    /\ bounty' =
         IF response = <<>>
         THEN [bounty EXCEPT !.pc = "raised", !.raised = "NotFound"]
         ELSE IF Building(bounty.has_entry) # "none"
         THEN [bounty EXCEPT !.pc = "raised", !.raised = Building(bounty.has_entry)]
         ELSE LET idx == FirstInactive(response)
              IN [bounty EXCEPT !.pc = "returned",
                                !.response = response,
                                !.active = ActiveSlice(response, idx),
                                !.past = PastSlice(response, idx)]
    /\ UNCHANGED beyond_bounty

\* ----------------------------------------------------- the weak lock map
\* PaladinsAPI._locks is a WeakValueDefaultDict of asyncio.Lock objects: the
\* map holds its locks weakly, a task holds the lock it looked up strongly
\* from the lookup until it has left the block.

\* bounds
NWeakTasks == 3      \* tasks entering lock blocks
MaxLocks == 3        \* lock objects the factory makes

WeakTasks == 1..NWeakTasks
LockIds == 1..MaxLocks

\* api.py:165   the keys: "server_status", and a language, the key of the
\* refresh lock of the data cache (arez/cache.py, which is not part of the
\* sources at hand: design, section 5)
WeakKeys == {"server_status", "English"}

NoWeakTask == [pc |-> "idle", key |-> "none", ref |-> 0, fresh |-> FALSE]

\* asyncio.Lock()   a lock as the factory makes it; the map is built in
\* arez/cache.py, and the design names its values locks
FreshLock == [locked |-> FALSE, waiters |-> <<>>]

WeakInit ==
    /\ locks = [k \in WeakKeys |-> 0]
    /\ lock_objs = [i \in LockIds |-> FreshLock]
    /\ locks_made = 0
    /\ weak_task = [t \in WeakTasks |-> NoWeakTask]

\* A map that drops a lock whoever refers to it.
ReferencedNever(i) == FALSE

\* weakref.WeakValueDictionary   an entry stays while anything refers to its
\* value strongly: here, the tasks that are in the block of the lock or
\* queued for it.
Referenced(i) == \E t \in WeakTasks : weak_task[t].ref = i

\* utils.py:1293-1301   WeakValueDefaultDict.__getitem__: the lock stored under
\* the key, or a new one from the factory, stored and returned.
GetItem(k) == IF locks[k] # 0 THEN locks[k] ELSE locks_made + 1

\* utils.py:1299-1300   what __getitem__ leaves in the map
AfterGetItem(k) == [locks EXCEPT ![k] = GetItem(k)]

\* asyncio.Lock.acquire   the lock is taken at once when it is not locked and
\* nobody is queued for it.
CanTake(i) == ~lock_objs[i].locked /\ lock_objs[i].waiters = <<>>

\* api.py:165   async with self._locks[key], the lock being free: the task is
\* in the block.
EnterBlock(t, k) ==
    /\ weak_task[t].pc = "idle"
    /\ locks[k] = 0 => locks_made < MaxLocks
    /\ CanTake(GetItem(k))
    /\ locks' = AfterGetItem(k)
    /\ locks_made' = IF locks[k] = 0 THEN locks_made + 1 ELSE locks_made
    /\ lock_objs' = [lock_objs EXCEPT ![GetItem(k)].locked = TRUE]
    /\ weak_task' = [weak_task EXCEPT ![t] = [pc |-> "block", key |-> k,
                                              ref |-> GetItem(k),
                                              fresh |-> (locks[k] = 0)]]
    /\ UNCHANGED beyond_weak

\* api.py:165   async with self._locks[key], the lock being taken: the task
\* queues up on the lock it was given.
QueueUp(t, k) ==
    /\ weak_task[t].pc = "idle"
    /\ locks[k] # 0
    /\ ~CanTake(locks[k])
    /\ lock_objs' = [lock_objs EXCEPT ![locks[k]].waiters = Append(@, t)]
    /\ weak_task' = [weak_task EXCEPT ![t] = [pc |-> "queued", key |-> k,
                                              ref |-> locks[k], fresh |-> FALSE]]
    /\ UNCHANGED <<locks, locks_made>>
    /\ UNCHANGED beyond_weak

\* asyncio.Lock.release at the end of the block: the lock is unlocked and the
\* task refers to it no longer.
LeaveBlock(t) ==
    /\ weak_task[t].pc = "block"
    /\ lock_objs' = [lock_objs EXCEPT ![weak_task[t].ref].locked = FALSE]
    /\ weak_task' = [weak_task EXCEPT ![t] = NoWeakTask]
    /\ UNCHANGED <<locks, locks_made>>
    /\ UNCHANGED beyond_weak

\* asyncio.Lock.acquire, resumed: the first task of the queue takes the lock
\* it queued for.
WokenUp(t) ==
    /\ weak_task[t].pc = "queued"
    /\ ~lock_objs[weak_task[t].ref].locked
    /\ Head(lock_objs[weak_task[t].ref].waiters) = t
    /\ lock_objs' = [lock_objs EXCEPT ![weak_task[t].ref] =
                        [locked |-> TRUE, waiters |-> Tail(@.waiters)]]
    /\ weak_task' = [weak_task EXCEPT ![t].pc = "block"]
    /\ UNCHANGED <<locks, locks_made>>
    /\ UNCHANGED beyond_weak

\* weakref.WeakValueDictionary   the entry of a lock nothing refers to
\* disappears, at some moment or never.
Vanish(k) ==
    /\ locks[k] # 0
    /\ ~Referenced(locks[k])
    /\ locks' = [locks EXCEPT ![k] = 0]
    /\ UNCHANGED <<lock_objs, locks_made, weak_task>>
    /\ UNCHANGED beyond_weak

Init ==
    /\ EndpointInit /\ CacheInit /\ LookupInit /\ StatusInit /\ CallbackInit
    /\ RegisterInit /\ AskInit /\ BatchInit /\ ExpandInit
    /\ QueueInit /\ EnumInit /\ BountyInit /\ WeakInit

\* --------------------------------------------------------- specifications

\* One task: the retry protocol against every sequence of upstream answers.
Next == Step({1}, FALSE)

Spec == Init /\ [][Next]_vars

\* Concurrent tasks contending for the session lock.
NextRace ==
    \/ Step(Callers, TRUE)
    \/ \E c \in Callers : Enqueue(c)
    \/ \E c \in Callers : Grant(c)

SpecRace == Init /\ [][NextRace]_vars

\* endpoint.py:355-463   a step of request() other than the call itself: the
\* event loop resumes a task that can go on.
Resume ==
    \/ \E c \in Callers, d \in Depths : Send(c, d)
    \/ \E c \in Callers : Acquire(c)
    \/ \E c \in Callers : Enqueue(c)
    \/ \E c \in Callers : Grant(c)
    \/ \E c \in Callers : CheckExpired(c)
    \/ \E c \in Callers : CheckFresh(c)
    \/ \E c \in Callers : CreatedOK(c)
    \/ \E c \in Callers : CreatedNoId(c)
    \/ \E c \in Callers : CreateRaised(c)
    \/ \E c \in Callers, d \in Depths : WakeUp(c, d)

\* endpoint.py:393-422, 424-455   the HTTP request in flight ends, with a
\* response or with an error (every request has a timeout); an upstream that
\* has handed out all its sessions goes on answering, with errors.
Answer ==
    \/ \E c \in Callers, d \in Depths, o \in Outcomes :
          issued = MaxSessions /\ RespondFailed(c, d, o, FALSE)
    \/ \E c \in Callers, d \in Depths : RespondOK(c, d)
    \/ \E c \in Callers, d \in Depths : RespondNoId(c, d, TRUE)
    \/ \E c \in Callers, d \in Depths : RespondInvalid(c, d, TRUE)
    \/ \E c \in Callers, d \in Depths, o \in Outcomes : RespondFailed(c, d, o, TRUE)
    \/ \E c \in Callers, d \in Depths, o \in Outcomes : RespondFatal(c, d, o, TRUE)

\* Concurrent tasks contending for the session lock at one instant: the lock
\* block reads the clock only to choose between its two branches, and an
\* invalid-session response makes it take the expired one again.
NextLock ==
    \/ \E c \in Callers, m \in Methods : Call(c, m)
    \/ Resume
    \/ Answer

SpecLock == Init /\ [][NextLock]_vars

\* The same, with an event loop that resumes every task that can go on and
\* requests that all end.
SpecLockLive ==
    /\ SpecLock
    /\ WF_vars(Resume)
    /\ WF_vars(Answer)

\* Concurrent tasks asking the data cache for champion information.
NextCache == CacheStep({"None"})

SpecCache == Init /\ [][NextCache]_vars

\* One task, the cache switched on and off between its calls, every cache
\* argument passed.
NextSwitch ==
    \/ CacheTick
    \/ \E t \in {1}, l \in {"None", "Polish"}, f \in BOOLEAN, c \in {"None", "True", "False"} :
          GetChampionInfo(t, l, f, c)
    \/ \E t \in {1}, l \in {"None", "Polish"}, e \in BOOLEAN : GetMatch(t, l, e)
    \/ \E t \in {1}, o \in MatchOutcomes, k \in BOOLEAN : MatchAnswered(t, o, k)
    \/ \E t \in {1}, o \in {"players"} \cup RequestExceptions : MatchPlayersAnswered(t, o)
    \/ \E t \in {1} : UseCached(t)
    \/ \E t \in {1} : StartFetch(t)
    \/ \E t \in {1} : FetchedData(t)
    \/ \E t \in {1} : FetchedNothing(t)
    \/ \E b \in BOOLEAN : SetCacheEnabled(b)

SpecSwitch == Init /\ [][NextSwitch]_vars

\* A name is asked for and cached as a CacheObject, once.
CacheName(name) == co_calls = <<>> /\ CacheObjectCall(NoId, name)

\* A Lookup filled and queried, one of the names asked for being cached as a
\* CacheObject.
NextLookup ==
    \/ \E id \in Ids \ {DEFAULT_ID}, name \in Names \ {DEFAULT_NAME, <<"a">>} : Add(id, name)
    \/ \E name \in {<<"a">>, <<"b", "a">>} : CacheName(name)
    \/ \E n \in Ids, w \in BOOLEAN : GetId(n, w)
    \/ \E s \in Names, w \in BOOLEAN : GetName(s, w)
    \/ \E s \in {<<"a">>, <<"A", "B">>, <<"b", "a">>}, k \in Limits, c \in Cutoffs, w \in BOOLEAN :
          GetFuzzyMatches(s, k, c, w)

SpecLookup == Init /\ [][NextLookup]_vars

\* The CacheObjects a Lookup hands out for what it does not hold.
NextShadow ==
    \/ \E id \in {1}, name \in {<<"a">>} : Add(id, name)
    \/ \E id \in Ids \cup {NoId}, name \in {NoName, <<>>, <<"a">>, <<"A", "b">>, <<"a", "b">>} :
          CacheObjectCall(id, name)

SpecShadow == Init /\ [][NextShadow]_vars

\* The status loop beside another task that asks for the server status.
NextStatus ==
    \/ StatusClock
    \/ RegisterStatusCallback
    \/ CancelMonitor
    \/ CancelledRuns
    \/ MonitorTick
    \/ MonitorGranted
    \/ \E o \in StatusOutcomes, h \in Healths : MonitorFetched(o, h)
    \/ MonitorWake
    \/ \E f \in BOOLEAN : AskStatus(f)
    \/ AskerGranted
    \/ \E o \in StatusOutcomes, h \in Healths : AskerFetched(o, h)

SpecStatus == Init /\ [][NextStatus]_vars

\* The calls of the other task in the behaviours checked for liveness.
MaxLiveAsks == 1

\* The same with fewer calls of the other task, an event loop that runs every
\* task that can run, sources that answer every fetch and a clock that goes on.
AskStatusOnce(force_refresh) ==
    /\ asker.asks < MaxLiveAsks
    /\ AskStatus(force_refresh)

NextStatusLive ==
    \/ StatusClock
    \/ RegisterStatusCallback
    \/ CancelMonitor
    \/ CancelledRuns
    \/ MonitorTick
    \/ MonitorGranted
    \/ \E o \in StatusOutcomes, h \in Healths : MonitorFetched(o, h)
    \/ MonitorWake
    \/ \E f \in BOOLEAN : AskStatusOnce(f)
    \/ AskerGranted
    \/ \E o \in StatusOutcomes, h \in Healths : AskerFetched(o, h)

SpecStatusLive ==
    /\ Init /\ [][NextStatusLive]_vars
    /\ WF_vars(StatusClock)
    /\ WF_vars(CancelledRuns)
    /\ WF_vars(MonitorTick)
    /\ WF_vars(MonitorGranted)
    /\ WF_vars(\E o \in StatusOutcomes, h \in Healths : MonitorFetched(o, h))
    /\ WF_vars(MonitorWake)
    /\ WF_vars(AskerGranted)
    /\ WF_vars(\E o \in StatusOutcomes, h \in Healths : AskerFetched(o, h))


\* The status loop and the callback tasks it creates, with sources that
\* answer every fetch: no other task asks for the status.
NextCallback ==
    \/ StatusClock
    \/ RegisterStatusCallback
    \/ CancelMonitor
    \/ CancelledRuns
    \/ MonitorTick
    \/ MonitorGranted
    \/ \E o \in StatusOutcomes, h \in Healths : MonitorFetched(o, h)
    \/ MonitorWake
    \/ \E n \in 1..MaxTicks, o \in CallbackOutcomes : CallbackEnds(n, o)

SpecCallback == Init /\ [][NextCallback]_vars

\* The same, with an event loop that runs every task that can run and a
\* clock that goes on.
SpecCallbackLive ==
    /\ SpecCallback
    /\ WF_vars(StatusClock)
    /\ WF_vars(CancelledRuns)
    /\ WF_vars(MonitorTick)
    /\ WF_vars(MonitorGranted)
    /\ WF_vars(\E o \in StatusOutcomes, h \in Healths : MonitorFetched(o, h))
    /\ WF_vars(MonitorWake)

\* Callbacks registered and removed, the loops' tasks ticking in between.
NextRegister ==
    \/ \E cb \in Callbacks, iv \in IntervalPairs : Register(cb, iv)
    \/ Close
    \/ \E i \in 1..MaxRegistrations : LoopReads(i)

SpecRegister == Init /\ [][NextRegister]_vars

\* Tasks calling get_server_status side by side.
NextAsk ==
    \/ StatusClock
    \/ \E c \in StatusCallers, f \in BOOLEAN : CallStatus(c, f)
    \/ \E c \in StatusCallers : CallerGranted(c)
    \/ \E c \in StatusCallers, a \in BOOLEAN, p \in BOOLEAN, h \in {"Operational", "Down"} :
          CallerFetched(c, a, p, h)

SpecAsk == Init /\ [][NextAsk]_vars

\* One get_matches or get_players call, against every answer tried.
NextBatch ==
    \/ \E ids \in Inputs, e \in BOOLEAN : GetMatches(ids, e)
    \/ \E h \in BOOLEAN : BatchEntryFetched(h)
    \/ \E ids \in Inputs, p \in BOOLEAN : GetPlayers(ids, p)
    \/ \E o \in Orders, w \in Which, k \in {"missing", "message"} : MatchesAnswered(o, w, k)
    \/ \E o \in Orders \ {"interleaved"}, w \in Which, k \in {"missing", "message"} :
          PlayersAnswered(o, w, k)
    \/ \E found \in SUBSET {1, 2} : ExpandPlayersAnswered(found)
    \/ \E exc \in RequestExceptions : BatchRequestFails(exc)

SpecBatch == Init /\ [][NextBatch]_vars

\* One Expandable object awaited several times, by tasks side by side.
NextExpand ==
    \/ \E object \in Partials : MakePartial(object)
    \/ AwaitPartial
    \/ \E n \in 1..MaxAwaits, a \in Answers : ExpandAnswered(n, a)
    \/ \E n \in 1..MaxAwaits, h \in BOOLEAN : ExpandEntryFetched(n, h)

SpecExpand == Init /\ [][NextExpand]_vars

\* One get_matches_for_queue or _date_gen call over every pair of times.
NextQueue ==
    \/ \E s \in Times, e \in Times, r \in BOOLEAN : DateGenCall(s, e, r)
    \/ \E s \in QueueTimes, e \in QueueTimes, r \in BOOLEAN, x \in BOOLEAN :
          GetMatchesForQueue(s, e, r, x)
    \/ \E h \in BOOLEAN : QueueEntryFetched(h)
    \/ \E f \in BOOLEAN : IdsAnswered(f)
    \/ \E f \in BOOLEAN : ChunkAnswered(f)
    \/ \E found \in SUBSET {1, 2} : QueuePlayersAnswered(found)
    \/ \E exc \in RequestExceptions : QueueRequestFails(exc)
    \/ AskNext
    \/ LeaveLoop

SpecQueue == Init /\ [][NextQueue]_vars

\* An enum class is defined and then tampered with.
NextEnum ==
    \/ \E attrs \in Bodies : DefineEnum(attrs)
    \/ \E n \in AttrNames : DelAttr(n)
    \/ \E n \in AttrNames : SetAttr(n)
    \/ \E n \in {<<"A">>, <<"c">>}, v \in {0, 4} : CallEnum(n, v)
    \/ \E n \in AttrNames, p \in {"name", "value"} : SetProperty(n, p)

SpecEnum == Init /\ [][NextEnum]_vars

\* One get_bounty call against responses that list the active items first.
NextBounty ==
    \/ GetBounty
    \/ \E h \in BOOLEAN : BountyEntryFetched(h)
    \/ \E exc \in RequestExceptions : BountyRequestFails(exc)
    \/ \E a \in 0..MaxBounty, i \in 0..MaxBounty : BountyAnswered(BountyResponse(a, i))

SpecBounty == Init /\ [][NextBounty]_vars

\* Tasks entering the lock blocks of a few keys, with a map whose unreferenced
\* locks disappear at any moment.
NextWeak ==
    \/ \E t \in WeakTasks, k \in WeakKeys : EnterBlock(t, k)
    \/ \E t \in WeakTasks, k \in WeakKeys : QueueUp(t, k)
    \/ \E t \in WeakTasks : LeaveBlock(t)
    \/ \E t \in WeakTasks : WokenUp(t)
    \/ \E k \in WeakKeys : Vanish(k)

SpecWeak == Init /\ [][NextWeak]_vars

\* ------------------------------------------------------------------ claims

Authenticated(c) == NeedsSession(frame[c, 0].method) /\ frame[c, 0].method # "none"

\* C1: tasks that call session-authenticated methods concurrently while the
\* session is expired, every upstream answer being a success, cause exactly one
\* createsession call between them, and each of them sends its signed request
\* with the session id that call returned.  (The session is expired from the
\* construction of the endpoint on; a session stored in a behaviour stays valid
\* as long as the clock is below SESSION_LIFETIME.)
C1_OneSessionCreation ==
    (faults = 0 /\ now < SESSION_LIFETIME) =>
        /\ renewals <= 1
        /\ \A c \in Callers :
              (Authenticated(c) /\ frame[c, 0].sent > 0) =>
                  /\ renewals = 1
                  /\ session_key # 0
                  /\ frame[c, 0].token = session_key

C1_Witness ==
    /\ faults = 0
    /\ now < SESSION_LIFETIME
    /\ \A c \in Callers : Authenticated(c) /\ frame[c, 0].pc = "http"
    /\ \E c \in Callers : frame[c, 0].stale
    /\ \E c \in Callers : ~frame[c, 0].stale

\* C2: one call of request() sends at most 5 HTTP requests for its method, and
\* a call whose 5 attempts all failed by a connection error, a timeout or an
\* invalid-session response has raised HTTPException and returned nothing.
C2_FiveAttempts ==
    \A f \in Frames :
        /\ frame[f].sent <= 5
        /\ (frame[f].sleeps + frame[f].invalids >= 5) =>
              /\ frame[f].pc = "raised"
              /\ frame[f].exc = "HTTPException"
              /\ frame[f].ret = "none"
              /\ frame[f].sent = 5

C2_Witness ==
    \E f \in Frames :
        /\ frame[f].pc = "raised"
        /\ frame[f].method = "getplayer"
        /\ frame[f].sleeps >= 2
        /\ frame[f].invalids >= 2
        /\ frame[f].sleeps + frame[f].invalids = 5

\* C3: a call that returns after k attempts failed by a connection error or a
\* timeout has completed exactly k backoff sleeps (one for each attempt that
\* did not fail by an invalid-session response) and returns the payload of its
\* last attempt.
C3_SleepPerFailure ==
    \A f \in Frames :
        frame[f].pc = "returned" =>
            /\ frame[f].tries < 5
            /\ frame[f].sleeps = frame[f].tries - frame[f].invalids
            /\ frame[f].ret \in {"ok", "nosid"}
            /\ frame[f].last = frame[f].ret

C3_Witness ==
    \E f \in Frames :
        /\ frame[f].pc = "returned"
        /\ frame[f].ret = "ok"
        /\ frame[f].invalids = 0
        /\ frame[f].tries = 2
        /\ frame[f].sleeps = 2

\* C4: an invalid-session response to an authenticated call of a single task
\* expires the stored session in the same step; the next attempt of the call
\* finds the session expired, calls createsession and, once that has returned a
\* session id, sends the same method with the new id.
C4_InvalidStep ==
    \A c \in Callers :
        (/\ frame[c, 0].pc = "http"
         /\ Authenticated(c)
         /\ frame'[c, 0].invalids = frame[c, 0].invalids + 1) =>
            /\ now >= session_expires'
            /\ frame'[c, 0].method = frame[c, 0].method

C4_NextAttempt ==
    \A c \in Callers :
        (Authenticated(c) /\ frame[c, 0].last = "invalid") =>
            /\ frame[c, 0].pc = "creating" => frame[c, 0].stale
            /\ frame[c, 0].pc = "http" =>
                  /\ frame[c, 0].stale
                  /\ frame[c, 0].created = issued
                  /\ frame[c, 0].token = frame[c, 0].created
                  /\ session_key = frame[c, 0].token
                  /\ frame[c, 0].sent = frame[c, 0].tries + 1

C4_RenewAfterInvalid == [][C4_InvalidStep]_vars /\ []C4_NextAttempt

C4_Witness ==
    /\ frame[1, 0].pc = "http"
    /\ frame[1, 0].method = "getplayer"
    /\ frame[1, 0].last = "invalid"
    /\ frame[1, 0].token = 2
    /\ frame[1, 0].sent = 2

\* C5 as stated: every further attempt of a call follows a backoff sleep.
C5_SleepBeforeEveryRetry ==
    [][\A f \in Frames :
          frame'[f].tries = frame[f].tries + 1 => frame[f].pc = "sleep"]_vars

\* C5 as amended: a further attempt follows either a backoff sleep, whose base
\* is half a second times the number of the attempts before the failed one and
\* which is taken after a connection error or a timeout, or an invalid-session
\* response, with no sleep in between.
C5_RetryStep ==
    \A f \in Frames :
        /\ frame'[f].tries = frame[f].tries + 1 =>
              \/ /\ frame[f].pc = "sleep"
                 /\ frame[f].last \in {"connerr", "timeout"}
                 /\ frame[f].delay = frame[f].tries
                 /\ frame'[f].sleeps = frame[f].sleeps + 1
              \/ /\ frame[f].pc = "http"
                 /\ frame'[f].last = "invalid"
                 /\ frame'[f].sleeps = frame[f].sleeps
        /\ (/\ frame[f].pc = "http"
            /\ frame'[f] # frame[f]
            /\ frame'[f].last \in {"connerr", "timeout"}) =>
              /\ frame'[f].pc = "sleep"
              /\ frame'[f].delay = frame[f].tries

C5_BackoffOnConnectionProblems == [][C5_RetryStep]_vars

C5_Witness ==
    \E f \in Frames :
        /\ frame[f].pc = "sleep"
        /\ frame[f].invalids = 1
        /\ frame[f].sleeps = 1
        /\ frame[f].delay = 2

\* C6: a signed request is sent by the task that holds the session lock, in the
\* step that releases it, with the session id stored at that moment; when the
\* session check of the attempt found the session expired, that id is the one
\* the attempt's own createsession call returned.
C6_SendStep ==
    \A c \in Callers :
        (/\ frame[c, 0].pc # "http"
         /\ frame'[c, 0].pc = "http"
         /\ NeedsSession(frame'[c, 0].method)) =>
            /\ session_lock = c
            /\ session_lock' = 0
            /\ frame'[c, 0].token = session_key'

C6_InFlight ==
    \A c \in Callers :
        (frame[c, 0].pc = "http" /\ Authenticated(c)) =>
            /\ frame[c, 0].token # 0
            /\ frame[c, 0].token <= issued
            /\ session_lock # c
            /\ frame[c, 1].pc = "idle"
            /\ frame[c, 0].stale =>
                  /\ frame[c, 0].created # 0
                  /\ frame[c, 0].token = frame[c, 0].created

C6_SessionBeforeRequest == [][C6_SendStep]_vars /\ []C6_InFlight

C6_Witness ==
    /\ \A c \in Callers : Authenticated(c) /\ frame[c, 0].pc = "http"
    /\ frame[1, 0].token # frame[2, 0].token
    /\ frame[1, 0].stale
    /\ frame[2, 0].stale

\* C7 as stated: a session check made SESSION_LIFETIME or more after the check
\* that stored the session id finds the session expired.
C7_FixedLifetime ==
    [][\A c \in Callers :
          (frame[c, 0].pc = "check" /\ now >= key_time + SESSION_LIFETIME) =>
              frame'[c, 0].pc = "creating"]_vars

\* C7 as amended: a session check made SESSION_LIFETIME or more after the
\* latest session check that completed (the one that stored the session id or a
\* later one that found it valid) finds the session expired.
C7_SlidingLifetime ==
    [][\A c \in Callers :
          (frame[c, 0].pc = "check" /\ now >= checked_at + SESSION_LIFETIME) =>
              frame'[c, 0].pc = "creating"]_vars

C7_Witness ==
    /\ frame[1, 0].pc = "creating"
    /\ frame[1, 0].invalids = 0
    /\ session_key # 0
    /\ frame[1, 0].at >= checked_at + SESSION_LIFETIME
    /\ session_expires = checked_at + SESSION_LIFETIME

\* C8 as stated: a 503, a daily-limit message and any other HTTP error status
\* end the call with Unavailable, LimitReached and HTTPException (wrapping the
\* response error), exactly one HTTP attempt was made for the method and no
\* backoff sleep was made.
C8_ExactlyOneAttempt ==
    \A f \in Frames :
        frame[f].last \in {"s503", "limit", "httperr"} =>
            /\ frame[f].pc = "raised"
            /\ frame[f].last = "s503" => frame[f].exc = "Unavailable"
            /\ frame[f].last = "limit" => frame[f].exc = "LimitReached"
            /\ frame[f].last = "httperr" =>
                  frame[f].exc = "HTTPException" /\ frame[f].cause = "httperr"
            /\ frame[f].sent = 1
            /\ frame[f].sleeps = 0

\* C8, amended: a 503, a daily-limit message and any other HTTP error status
\* end the call with Unavailable, LimitReached and HTTPException (wrapping the
\* response error); the attempt that received it is the last HTTP attempt of
\* the call, the only one when no earlier attempt was retried, and no backoff
\* sleep follows it: every sleep of the call belongs to an earlier attempt
\* that ended in a connection problem.
C8_FatalNotRetried ==
    \A f \in Frames :
        frame[f].last \in {"s503", "limit", "httperr"} =>
            /\ frame[f].pc = "raised"
            /\ frame[f].last = "s503" => frame[f].exc = "Unavailable"
            /\ frame[f].last = "limit" => frame[f].exc = "LimitReached"
            /\ frame[f].last = "httperr" =>
                  frame[f].exc = "HTTPException" /\ frame[f].cause = "httperr"
            /\ frame[f].sent = frame[f].tries + 1
            /\ frame[f].sleeps = frame[f].tries - frame[f].invalids
            /\ frame[f].tries = 0 => (frame[f].sent = 1 /\ frame[f].sleeps = 0)

\* A getplayer call whose first attempt met a connection problem and was
\* retried after one sleep, and whose second attempt got a 503: two requests,
\* one sleep, Unavailable.
C8_Witness ==
    \E f \in Frames :
        /\ frame[f].last = "s503"
        /\ frame[f].exc = "Unavailable"
        /\ frame[f].method = "getplayer"
        /\ frame[f].tries = 1
        /\ frame[f].invalids = 0
        /\ frame[f].sent = 2
        /\ frame[f].sleeps = 1

\* C9: when createsession returns a payload without a session id, the calling
\* request raises Unauthorized in its next step without sending its own request
\* or starting another attempt; the lock is released, the stored session id and
\* expiry stay as they are and the session is still expired.
C9_Step ==
    \A c \in Callers :
        (/\ frame[c, 0].pc = "creating"
         /\ frame[c, 1].pc = "returned"
         /\ frame[c, 1].ret = "nosid") =>
            /\ frame'[c, 0].pc = "raised"
            /\ frame'[c, 0].exc = "Unauthorized"
            /\ frame'[c, 0].sent = frame[c, 0].sent
            /\ frame'[c, 0].tries = frame[c, 0].tries
            /\ session_lock = c
            /\ session_lock' = 0
            /\ session_key' = session_key
            /\ session_expires' = session_expires
            /\ now' >= session_expires'

C9_UnauthorizedLeavesSession == [][C9_Step]_vars

C9_Witness ==
    /\ frame[1, 0].exc = "Unauthorized"
    /\ frame[1, 0].sent = 0
    /\ frame[2, 0].pc = "creating"
    /\ renewals = 2
    /\ session_key = 0

\* C10: within 12 hours of its fetch the stored entry of a language is returned
\* as it is, without an upstream fetch, by every get_champion_info call that
\* does not force a refresh; and when every fetch succeeds, the calls that do
\* not force a refresh start at most one fetch per 12 hours for a language,
\* however many of them run concurrently, each of them returning an entry that
\* was less than 12 hours old when the call examined the cache.
C10_FreshStep ==
    \A t \in Tasks :
        (/\ task[t].pc = "locked"
         /\ ~task[t].force_refresh
         /\ entries[LangOf(t)] # NoEntry
         /\ clock < entries[LangOf(t)].fetched + REFRESH_EVERY) =>
            /\ task'[t].pc = "done"
            /\ task'[t].exc = "none"
            /\ task'[t].result = entries[LangOf(t)]
            /\ entries' = entries
            /\ fetches' = fetches

C10_OneRefetch ==
    clean =>
        /\ \A l \in Languages : refetched[l] <= (clock \div REFRESH_EVERY) + 1
        /\ \A t \in Tasks :
              (task[t].pc = "done" /\ ~task[t].force_refresh) =>
                  /\ task[t].exc = "none"
                  /\ task[t].result.ver >= 1
                  /\ task[t].result.fetched <= task[t].at
                  /\ task[t].at < task[t].result.fetched + REFRESH_EVERY

C10_CachedForTwelveHours == [][C10_FreshStep]_vars /\ []C10_OneRefetch

C10_Witness ==
    /\ clean
    /\ \A t \in Tasks :
          /\ task[t].pc = "done"
          /\ ~task[t].force_refresh
          /\ LangOf(t) = "English"
          /\ task[t].result.ver = 2
          /\ task[t].result.fetched >= REFRESH_EVERY
    /\ \E t \in Tasks : task[t].queued
    /\ fetches["English"] = 2
    /\ entries["English"].ver = 2

\* C11: a refresh fetch that fails or returns nothing leaves the stored entries
\* as they are; get_champion_info returns the entry stored for the language if
\* there is one and raises NotFound if there is none.
C11_Step ==
    \A t \in Tasks :
        (task[t].pc = "fetching" /\ task'[t].pc = "done" /\ task'[t].got = "nothing") =>
            /\ entries' = entries
            /\ IF entries[LangOf(t)] # NoEntry
               THEN task'[t].exc = "none" /\ task'[t].result = entries[LangOf(t)]
               ELSE task'[t].exc = "NotFound" /\ task'[t].result = NoEntry

C11_SoftFail == [][C11_Step]_vars

C11_Witness ==
    \E t, u \in Tasks :
        /\ task[t].pc = "done" /\ task[t].got = "nothing"
        /\ task[t].exc = "NotFound" /\ task[t].result = NoEntry
        /\ task[u].pc = "done" /\ task[u].got = "nothing"
        /\ task[u].exc = "none" /\ task[u].result = entries[LangOf(u)]
        /\ task[u].result # NoEntry

\* C12: while the cache is disabled no operation stores an entry, whatever
\* cache argument it passes, and every object built carries a CacheObject
\* stand-in for its champion.
C12_NoStore == ~cache_enabled => entries' = entries

C12_StandIns ==
    \A t \in Tasks :
        (/\ task[t].pc = "done" /\ task[t].op = "match" /\ ~task[t].enabled
         /\ task[t].champion # "none") =>
            task[t].champion = "CacheObject"

Added == {list_lookup[i] : i \in 1..Len(list_lookup)}
WithId(n) == {r \in Added : objs[r].id = n}
WithName(q) == {r \in Added : Lower(objs[r].name) = Lower(q)}

\* C13: after any sequence of add calls get(n) returns an element whose id is
\* n, get(s) an element whose name is s but for the case of its letters, and
\* None when no element added has the id or the name.
C13_GetExactAndCaseless ==
    /\ \A n \in Ids :
          IF WithId(n) = {} THEN GetById(n, FALSE) = NoObj ELSE GetById(n, FALSE) \in WithId(n)
    /\ \A q \in Names :
          IF WithName(q) = {} THEN GetByName(q, FALSE) = NoObj
          ELSE GetByName(q, FALSE) \in WithName(q)
    /\ (answer.op = "get" /\ ~answer.with_cached /\ answer.id # NoId) =>
          answer.ret = GetById(answer.id, FALSE)
    /\ (answer.op = "get" /\ ~answer.with_cached /\ answer.name # NoName) =>
          answer.ret = GetByName(answer.name, FALSE)

C13_Witness ==
    /\ answer.op = "get" /\ ~answer.with_cached
    /\ answer.name = <<"a", "b">>
    /\ answer.ret # NoObj
    /\ objs[answer.ret].name = <<"A", "b">>
    /\ \E n \in Ids : WithId(n) = {}

\* The _cache_object calls i < j that pass the same id and nothing but other
\* ids between them.
SameId(i, j) ==
    /\ i < j
    /\ co_calls[i].id # NoId
    /\ co_calls[j].id = co_calls[i].id
    /\ DictGet(id_lookup, co_calls[i].id) = NoObj

Nameless(i, j) ==
    /\ co_calls[i].name = NoName /\ co_calls[j].name = NoName
    /\ \A k \in (i + 1)..(j - 1) : co_calls[k].id # co_calls[i].id

\* C14 as stated: two calls _cache_object(id=X, name=None) on a Lookup that
\* lacks X return the same instance, whatever X.
C14_SameInstanceForAnyId ==
    \A i, j \in 1..Len(co_calls) :
        (SameId(i, j) /\ Nameless(i, j)) => co_calls[i].ret = co_calls[j].ret

\* C14, amended: two calls _cache_object(id=X, name=None) on a Lookup that lacks
\* X return the same instance when X is not 0, the id a CacheObject has by
\* default, also when calls for other ids or names come between them.
C14_SameInstanceTwice ==
    \A i, j \in 1..Len(co_calls) :
        (SameId(i, j) /\ Nameless(i, j) /\ co_calls[i].id # DEFAULT_ID) =>
            co_calls[i].ret = co_calls[j].ret

C14_Witness ==
    /\ Len(co_calls) = 3
    /\ SameId(1, 3) /\ Nameless(1, 3)
    /\ co_calls[1].id # DEFAULT_ID
    /\ co_calls[2].name # NoName /\ co_calls[2].id # NoId
    /\ co_calls[1].ret = co_calls[3].ret
    /\ objs[co_calls[3].ret].kind = "CacheObject"

\* C15 as stated: any two calls that pass id X on a Lookup that lacks X return
\* the same instance, whatever names they pass.
C15_SameInstanceForAnyName ==
    \A i, j \in 1..Len(co_calls) :
        SameId(i, j) => co_calls[i].ret = co_calls[j].ret

\* C15, amended: on a Lookup that lacks X, X not 0, once a call that passes id
\* X has returned an object that has id X and a name, every later call that
\* passes id X returns that instance, whatever name it passes.
C15_SameInstanceOnceNamed ==
    \A i, j \in 1..Len(co_calls) :
        (/\ SameId(i, j)
         /\ co_calls[i].id # DEFAULT_ID
         /\ objs[co_calls[i].ret].id = co_calls[i].id
         /\ ~IsDefaultName(objs[co_calls[i].ret])) =>
            co_calls[i].ret = co_calls[j].ret

C15_Witness ==
    /\ Len(co_calls) = 3
    /\ SameId(1, 3)
    /\ co_calls[1].id # DEFAULT_ID
    /\ co_calls[1].name # NoName /\ co_calls[3].name # NoName
    /\ co_calls[1].name # co_calls[3].name
    /\ co_calls[2].id # co_calls[1].id
    /\ ~IsDefaultName(objs[co_calls[1].ret])
    /\ co_calls[1].ret = co_calls[3].ret

\* C16: _cache_object leaves the elements, the id index and the name index as
\* they are, and with them len, iteration and get; the CacheObjects it makes
\* are in the shadow maps only.
C16_Step ==
    co_calls' # co_calls =>
        /\ primary' = primary
        /\ \A n \in Ids : GetById(n, FALSE)' = GetById(n, FALSE)
        /\ \A q \in Names : GetByName(q, FALSE)' = GetByName(q, FALSE)

C16_ShadowOnly ==
    \A r \in 1..Len(objs) :
        objs[r].kind = "CacheObject" =>
            /\ r \notin Added
            /\ \A i \in 1..Len(id_lookup) : id_lookup[i][2] # r
            /\ \A i \in 1..Len(name_lookup) : name_lookup[i][2] # r

C16_PrimaryUntouched == [][C16_Step]_vars /\ []C16_ShadowOnly

C16_Witness ==
    /\ list_lookup # <<>>
    /\ \E i \in 1..Len(cached_id_lookup) :
          /\ objs[cached_id_lookup[i][2]].kind = "CacheObject"
          /\ ~IsDefaultName(objs[cached_id_lookup[i][2]])
    /\ \E i \in 1..Len(co_calls) : objs[co_calls[i].ret].kind = "Element"

\* The names a fuzzy query looks at, with the element of each.
Bank(with_cached) ==
    IF with_cached THEN ChainItems(name_lookup, cached_name_lookup) ELSE name_lookup

\* C17: get_fuzzy_matches returns at most limit elements, each with a score of
\* at least the cutoff, by falling score, and they are the best: a name left
\* out with a score of at least the cutoff scores no higher than any element
\* returned.
C17_TopMatches ==
    answer.op = "fuzzy" =>
        LET m == answer.matches
            q == Lower(answer.name)
            bank == Bank(answer.with_cached)
            good == {i \in 1..Len(bank) : AtLeast(Ratio(bank[i][1], q), answer.cutoff)}
        IN  /\ Len(m) <= answer.limit
            /\ Len(m) = Min(answer.limit, Cardinality(good))
            /\ \A i \in 1..Len(m) :
                  /\ AtLeast(m[i][2], answer.cutoff)
                  /\ \E k \in 1..Len(bank) :
                        bank[k][2] = m[i][1] /\ m[i][2] = Ratio(bank[k][1], q)
            /\ \A i, j \in 1..Len(m) : i < j => AtLeast(m[i][2], m[j][2])
            /\ \A k \in good :
                  (\A i \in 1..Len(m) : m[i][1] # bank[k][2]) =>
                      \A i \in 1..Len(m) : AtLeast(m[i][2], Ratio(bank[k][1], q))

C17_Witness ==
    /\ answer.op = "fuzzy"
    /\ answer.limit = 2 /\ Len(answer.matches) = 2
    /\ answer.cutoff = <<1, 2>>
    /\ ~AtLeast(answer.matches[2][2], answer.matches[1][2])
    /\ \E k \in 1..Len(Bank(answer.with_cached)) :
          /\ AtLeast(Ratio(Bank(answer.with_cached)[k][1], Lower(answer.name)), answer.cutoff)
          /\ \A i \in 1..2 : answer.matches[i][1] # Bank(answer.with_cached)[k][2]
    /\ \E k \in 1..Len(Bank(answer.with_cached)) :
          ~AtLeast(Ratio(Bank(answer.with_cached)[k][1], Lower(answer.name)), answer.cutoff)

\* A tick of the monitor ends: get_server_status has returned or raised.
TickEnds == monitor.pc = "fetching" /\ monitor'.pc = "sleeping"

\* C18: the monitor dispatches the callback at a tick only if there was a
\* status before the tick and the status the tick got is unequal to it:
\* nothing is dispatched at a tick with no previous status, at a tick whose
\* fetch raised or at a tick that got a status equal to the previous one,
\* and nothing is dispatched outside the end of a tick.
C18_Step ==
    dispatched' # dispatched =>
        /\ TickEnds
        /\ dispatched' = dispatched + 1
        /\ monitor'.fired
C18_Fired ==
    monitor.fired =>
        /\ monitor.old_status # NoStatus
        /\ monitor.how \in {"data", "cached"}
        /\ monitor.new_status # NoStatus
        /\ monitor.new_status.health # monitor.old_status.health
C18_DispatchOnlyOnChange == [][C18_Step]_vars /\ []C18_Fired

\* A callback was dispatched at an earlier tick, and the third tick got a
\* status equal to the one before it and dispatched nothing.
C18_Witness ==
    /\ dispatched = 1
    /\ monitor.ticks = 3
    /\ monitor.pc = "sleeping"
    /\ monitor.how = "data"
    /\ monitor.old_status # NoStatus
    /\ monitor.new_status.health = monitor.old_status.health
    /\ ~monitor.fired

\* C19: whatever other callers of get_server_status do between and during
\* the ticks, a tick that fetched a status unequal to the one the monitor
\* fetched at its previous tick creates exactly one callback task.  Before
\* the tick ends, monitor.how and monitor.new_status are still those of the
\* previous tick.
C19_Step ==
    ( /\ TickEnds
      /\ monitor.how = "data"
      /\ monitor'.how = "data"
      /\ monitor'.new_status.health # monitor.new_status.health )
    => ( dispatched' = dispatched + 1 /\ monitor'.fired )
C19_DispatchOnEveryChange == [][C19_Step]_vars

\* C20: after every tick the loop sleeps the recheck interval when the fetch
\* raised NotFound or any other exception, or when the status it got is not
\* all up or has limited access, and the check interval otherwise; a tick
\* that failed does not end the loop: unless the task is cancelled, the next
\* tick follows.
C20_Step ==
    TickEnds =>
        /\ monitor'.delay =
              IF \/ monitor'.how \in {"NotFound", "Exception"}
                 \/ ~AllUp(monitor'.new_status)
                 \/ LimitedAccess(monitor'.new_status)
              THEN RECHECK_INTERVAL
              ELSE CHECK_INTERVAL
        /\ monitor'.wake = status_now + monitor'.delay
C20_Failed(n) ==
    /\ monitor.ticks = n
    /\ monitor.pc = "sleeping"
    /\ monitor.how \in {"NotFound", "Exception"}
    /\ monitor.wake <= MaxMinutes
C20_KeepsTicking ==
    \A n \in 1..(MaxTicks - 1) :
        C20_Failed(n) ~> (monitor.ticks = n + 1 \/ monitor.pc = "off")
C20_SleepsAndGoesOn == [][C20_Step]_vars /\ C20_KeepsTicking

\* The first tick raised NotFound with nothing cached, the loop slept the
\* recheck interval and its second tick is fetching.
C20_Witness ==
    /\ monitor.ticks = 2
    /\ monitor.pc = "fetching"
    /\ monitor.how = "NotFound"
    /\ monitor.delay = RECHECK_INTERVAL
    /\ status_now = monitor.wake
    /\ asker.asks = 0

\* The callback of some task raises in this step.
CallbackRaises ==
    \E n \in 1..MaxTicks :
        <<n, "raised">> \in callback_ended' /\ <<n, "raised">> \notin callback_ended
\* Some callback has raised.
SomeRaised == \E n \in 1..MaxTicks : <<n, "raised">> \in callback_ended

\* C21: an exception raised by the callback never reaches the loop: the step
\* in which a callback raises leaves the loop's task as it is, the ticks
\* after it still happen unless the task is cancelled, and a tick that ends
\* after a callback raised dispatches the callback exactly when there was a
\* status before the tick and the status it got is unequal to it.
C21_Step == CallbackRaises => (monitor' = monitor /\ dispatched' = dispatched)
C21_StillDispatches ==
    (TickEnds /\ SomeRaised) =>
        ( dispatched' = dispatched + 1
          <=> ( /\ monitor'.how \in {"data", "cached"}
                /\ monitor.old_status # NoStatus
                /\ monitor'.new_status.health # monitor.old_status.health ) )
C21_Raised(n) ==
    /\ SomeRaised
    /\ monitor.ticks = n
    /\ monitor.pc = "sleeping"
    /\ monitor.wake <= MaxMinutes
C21_KeepsTicking ==
    \A n \in 1..(MaxTicks - 1) :
        C21_Raised(n) ~> (monitor.ticks = n + 1 \/ monitor.pc = "off")
C21_CallbackIsolated ==
    /\ [][C21_Step /\ C21_StillDispatches]_vars
    /\ C21_KeepsTicking

\* The first callback raised, and the third tick dispatched the callback
\* again.
C21_Witness ==
    /\ <<1, "raised">> \in callback_ended
    /\ dispatched = 2
    /\ 2 \in Pending
    /\ monitor.ticks = 3
    /\ monitor.fired

\* C22 as stated: while the loop sleeps after a tick whose callback has
\* raised, the sleep is the recheck interval.
C22_RecheckAfterCallbackRaised ==
    ( /\ monitor.pc = "sleeping"
      /\ monitor.fired
      /\ <<dispatched, "raised">> \in callback_ended )
    => monitor.delay = RECHECK_INTERVAL

\* C22, amended: the sleep after a tick whose callback raises is the one the
\* status of the tick selects, the recheck interval when it is not all up or
\* has limited access and the check interval otherwise, and the callback's
\* exception changes neither the delay nor the time the loop wakes up.
C22_Step ==
    CallbackRaises => (monitor'.delay = monitor.delay /\ monitor'.wake = monitor.wake)
C22_ByStatus ==
    ( /\ monitor.pc = "sleeping"
      /\ monitor.fired
      /\ <<dispatched, "raised">> \in callback_ended )
    => monitor.delay = IF monitor.new_status.health = "Operational"
                       THEN CHECK_INTERVAL
                       ELSE RECHECK_INTERVAL
C22_SleepByStatusAlone == [][C22_Step]_vars /\ []C22_ByStatus

\* The status became operational at the second tick, the callback dispatched
\* for it raised, and the loop sleeps the check interval.
C22_Witness ==
    /\ monitor.pc = "sleeping"
    /\ monitor.fired
    /\ <<dispatched, "raised">> \in callback_ended
    /\ monitor.new_status.health = "Operational"
    /\ monitor.delay = CHECK_INTERVAL

\* The tasks of the loop that are not cancelled.
Live == {i \in 1..Len(loop_tasks) : ~loop_tasks[i].cancelled}
\* A register_status_callback call is made in this step.
Registers == registered'.n = registered.n + 1

\* C23: after any sequence of register_status_callback calls at most one
\* loop task is not cancelled, and it is the one _status_task names, which
\* names a cancelled task only after close().  A call that passes a
\* callback and is accepted cancels the task there was and creates one
\* task, which reads the new callback and the new interval pair at its
\* ticks; a call that passes None cancels the task there was and leaves
\* none, and changes no task, callback or interval when no loop was running.
C23_AtMostOne ==
    /\ Cardinality(Live) <= 1
    /\ Live \subseteq {status_task}
    /\ (status_task # NoTask /\ status_task \notin Live) => registered.closed
    /\ \A i \in Live :
          loop_tasks[i].read \in
              {Unread, [callback |-> status_callback, intervals |-> status_intervals]}
C23_Step ==
    /\ (Registers /\ registered'.callback # None /\ registered'.raised = "none") =>
          /\ Len(loop_tasks') = Len(loop_tasks) + 1
          /\ status_task' = Len(loop_tasks')
          /\ \A i \in 1..Len(loop_tasks) : loop_tasks'[i].cancelled
          /\ loop_tasks'[status_task'] = LoopTask
          /\ status_callback'.callback = registered'.callback
          /\ status_intervals' = registered'.intervals
    /\ (Registers /\ registered'.callback = None) =>
          /\ status_task' = NoTask
          /\ Len(loop_tasks') = Len(loop_tasks)
          /\ \A i \in 1..Len(loop_tasks) : loop_tasks'[i].cancelled
          /\ Live = {} =>
                UNCHANGED <<loop_tasks, status_callback, status_intervals>>
C23_OneLoop == [][C23_Step]_vars /\ []C23_AtMostOne

\* A second callback was registered with another interval pair while the
\* loop of the first was ticking: the first task is cancelled, and the
\* second has made a tick with the new callback and the new pair.
C23_Witness ==
    /\ Len(loop_tasks) = 2
    /\ loop_tasks[1].cancelled
    /\ loop_tasks[1].read # Unread
    /\ Live = {2}
    /\ loop_tasks[2].read = [callback |-> status_callback, intervals |-> status_intervals]
    /\ loop_tasks[2].read # loop_tasks[1].read
    /\ status_intervals # loop_tasks[1].read.intervals

\* C24: register_status_callback raises TypeError for what is neither None
\* nor callable, and ValueError for a callable that does not have one or two
\* parameters, all positional; a call that raises leaves the loop's tasks,
\* the registered callback and the interval pair as they were.
C24_Step ==
    Registers =>
        LET cb == registered'.callback
            positional ==
                /\ Len(cb.params) \in {1, 2}
                /\ \A i \in 1..Len(cb.params) :
                      cb.params[i] \in {"POSITIONAL_ONLY", "POSITIONAL_OR_KEYWORD"}
        IN /\ cb.kind \notin {"None", "function"} => registered'.raised = "TypeError"
           /\ (cb.kind = "function" /\ ~positional) => registered'.raised = "ValueError"
           /\ registered'.raised # "none" =>
                 UNCHANGED <<status_task, loop_tasks, status_callback, status_intervals>>
C24_RejectedLeavesAll == [][C24_Step]_vars

\* A callback with a keyword-only parameter was rejected with ValueError
\* while a loop was running, which ticks on with the callback it had.
C24_Witness ==
    /\ registered.raised = "ValueError"
    /\ registered.callback.params = <<"POSITIONAL_OR_KEYWORD", "KEYWORD_ONLY">>
    /\ registered.n = 2
    /\ Live = {1}
    /\ loop_tasks[1].read.callback = status_callback
    /\ status_callback.callback # registered.callback

\* The fetch of caller c ends in this step.
FetchEnds(c) == callers[c].pc = "fetching" /\ callers'[c].pc = "done"
\* Caller c gets to the freshness test in this step, at once or after
\* waiting for the lock.
Enters(c) == callers[c].pc \in {"idle", "waiting"} /\ callers'[c].pc \in {"fetching", "done"}

\* C25: when a fetch gets data from neither source, the call raises NotFound
\* if no status is cached, and otherwise returns the cached status, which
\* stays as it is; when a source gave data, a status built now replaces the
\* cached one and is returned.
C25_Step ==
    \A c \in StatusCallers :
        FetchEnds(c) =>
            /\ (~callers'[c].data /\ server_status = NoStatus) =>
                  /\ callers'[c].raised = "NotFound"
                  /\ server_status' = NoStatus
            /\ (~callers'[c].data /\ server_status # NoStatus) =>
                  /\ callers'[c].raised = "none"
                  /\ callers'[c].returned = server_status
                  /\ server_status' = server_status
            /\ callers'[c].data =>
                  /\ callers'[c].raised = "none"
                  /\ server_status' # NoStatus
                  /\ server_status'.timestamp = status_now
                  /\ callers'[c].returned = server_status'
C25_SoftWhenCached == [][C25_Step]_vars

\* The first call found nothing and raised NotFound, the second built a
\* status, and the third, a minute later, found nothing and returned the
\* status of the second.
C25_Witness ==
    /\ callers["first"].raised = "NotFound"
    /\ callers["second"].data
    /\ callers["third"].pc = "done"
    /\ callers["third"].fetched
    /\ ~callers["third"].data
    /\ callers["third"].returned = callers["second"].returned
    /\ server_status = callers["second"].returned
    /\ status_now > server_status.timestamp

\* C26: a call without force_refresh that gets to the freshness test less
\* than a minute after the cached status was built returns the cached
\* status and begins no fetch; and when callers without force_refresh wait
\* for the lock while another fetches, and that fetch gets data, none of
\* them fetches and each returns the status that fetch built.
C26_Step ==
    \A c \in StatusCallers :
        ( /\ Enters(c)
          /\ ~callers'[c].force_refresh
          /\ server_status # NoStatus
          /\ status_now - server_status.timestamp < 1 )
        => /\ callers'[c].pc = "done"
           /\ ~callers'[c].fetched
           /\ callers'[c].returned = server_status
           /\ status_fetches' = status_fetches
C26_Shared ==
    \A c \in StatusCallers :
        ( /\ callers[c].pc = "done"
          /\ callers[c].fetched
          /\ callers[c].data
          /\ \A d \in StatusCallers : callers[d].behind = c => ~callers[d].force_refresh )
        => \A d \in StatusCallers :
              (callers[d].behind = c /\ callers[d].pc = "done") =>
                  /\ ~callers[d].fetched
                  /\ callers[d].returned = callers[c].returned
C26_FreshIsShared == [][C26_Step]_vars /\ []C26_Shared

\* C26, amended: a call without force_refresh that gets to the freshness test
\* less than a minute after the cached status was built returns the cached
\* status and begins no fetch; and when callers without force_refresh wait
\* for the lock while another fetches, and that fetch gets data, each of them
\* that has returned less than a minute after that status was built has
\* returned that status without fetching.
C26_SharedInTime ==
    \A c \in StatusCallers :
        ( /\ callers[c].pc = "done"
          /\ callers[c].fetched
          /\ callers[c].data
          /\ \A d \in StatusCallers : callers[d].behind = c => ~callers[d].force_refresh )
        => \A d \in StatusCallers :
              ( /\ callers[d].behind = c
                /\ callers[d].pc = "done"
                /\ status_now < callers[c].returned.timestamp + FRESH_FOR )
              => /\ ~callers[d].fetched
                 /\ callers[d].returned = callers[c].returned
C26_FreshIsSharedInTime == [][C26_Step]_vars /\ []C26_SharedInTime

\* Nothing fresh was cached, the first caller fetched while the two others
\* waited for the lock, and all three returned the status it built, with
\* one fetch made.
C26_Witness ==
    /\ callers["first"].fetched
    /\ callers["first"].data
    /\ callers["second"].behind = "first"
    /\ callers["third"].behind = "first"
    /\ \A c \in StatusCallers : callers[c].pc = "done" /\ ~callers[c].force_refresh
    /\ callers["second"].returned = callers["first"].returned
    /\ callers["third"].returned = callers["first"].returned
    /\ status_fetches = 1

\* The distinct ids of the input, all of them and those that are not 0.
Distinct == {batch.input[i] : i \in 1..Len(batch.input)}
\* The places an id has in the requests sent.
Places(id) ==
    {<<r, i>> \in (1..Len(batch.sent)) \X (1..PLAYER_CHUNK) :
        i <= Len(batch.sent[r]) /\ batch.sent[r][i] = id}
\* The ids of the result.
ResultIds == {batch.result[i].id : i \in 1..Len(batch.result)}
\* The result lists its entries in the order their ids first come in the
\* input.
InInputOrder ==
    \A i, j \in 1..Len(batch.result) :
        i < j => Index(batch.input, batch.result[i].id) < Index(batch.input, batch.result[j].id)

\* C27: a get_matches call on an input with k distinct ids never sends a
\* request with more than 10 ids or an id a second time, and once it has
\* returned it has sent ceil(k/10) requests, with every distinct id in
\* exactly one of them; an input with no ids sends none.
C27_ChunksOfTen ==
    batch.op = "get_matches" =>
        /\ \A r \in 1..Len(batch.sent) :
              Len(batch.sent[r]) >= 1 /\ Len(batch.sent[r]) <= 10
        /\ \A id \in 0..MaxBatch : Cardinality(Places(id)) <= 1
        /\ \A id \in (0..MaxBatch) \ Distinct : Places(id) = {}
        /\ batch.pc = "returned" =>
              /\ Len(batch.sent) = (Cardinality(Distinct) + 9) \div 10
              /\ \A id \in Distinct : Cardinality(Places(id)) = 1
        /\ batch.input = <<>> => batch.sent = <<>>
        /\ ~batch.expand_players => batch.asked = <<>>

\* A call without expand_players and with 21 distinct ids, some of them
\* repeated in the input, has returned after three requests.
C27_Witness ==
    /\ batch.op = "get_matches"
    /\ batch.pc = "returned"
    /\ ~batch.expand_players
    /\ Cardinality(Distinct) = 21
    /\ Len(batch.input) > 21
    /\ Len(batch.sent) = 3
    /\ Len(batch.sent[3]) = 1

\* C28: the matches get_matches returns are in the order of the
\* deduplicated input, whatever the order of the records in the responses.
C28_MatchesInInputOrder ==
    (batch.op = "get_matches" /\ batch.pc = "returned") => InInputOrder

\* C29 as stated: when the upstream has records with an error message for
\* some of the ids, get_matches raises nothing and returns the matches of
\* the other ids.
C29_MessagesLeftOut ==
    (batch.op = "get_matches" /\ batch.messages # {}) =>
        /\ batch.raised = "none"
        /\ batch.pc = "returned" => ResultIds = Distinct \ batch.messages

\* What get_matches does instead: when a response has a record with an
\* error message it raises HTTPException and returns nothing; only when the
\* upstream has no record of some of the ids does it raise nothing and
\* return the matches of the other ids.
C29_MessagesRaise ==
    batch.op = "get_matches" =>
        /\ batch.messages # {} =>
              /\ batch.pc = "raised"
              /\ batch.raised = "HTTPException"
        /\ batch.pc = "returned" =>
              /\ batch.raised = "none"
              /\ ResultIds = Distinct \ batch.silent

\* The first response had no record of one id and the call went on; the
\* second had a record with a message, and the call raised.
C29_Witness ==
    /\ batch.op = "get_matches"
    /\ Len(batch.sent) = 2
    /\ batch.silent # {}
    /\ batch.messages # {}
    /\ batch.raised = "HTTPException"
    /\ batch.result # <<>>

\* C30: get_players drops repeated ids and the id 0, sends the ids that
\* remain once each in requests of at most 20, none when none remain, and
\* once it has returned it has sent one request per 20 ids begun and its
\* result is in the order of the input; a private profile is left out
\* without return_private, and with it is a PartialPlayer in the place its
\* id has in the input; every other player the upstream has a record of is
\* a Player.
C30_PlayersInChunksAndOrder ==
    batch.op = "get_players" =>
        /\ \A r \in 1..Len(batch.sent) :
              Len(batch.sent[r]) >= 1 /\ Len(batch.sent[r]) <= 20
        /\ \A id \in 0..MaxBatch : Cardinality(Places(id)) <= 1
        /\ Places(0) = {}
        /\ Distinct \ {0} = {} => batch.sent = <<>>
        /\ batch.pc = "returned" =>
              /\ Len(batch.sent) = (Cardinality(Distinct \ {0}) + 19) \div 20
              /\ \A id \in Distinct \ {0} : Cardinality(Places(id)) = 1
              /\ InInputOrder
              /\ ResultIds = (Distinct \ {0}) \ (batch.silent \cup
                                IF batch.return_private THEN {} ELSE batch.messages)
              /\ \A i \in 1..Len(batch.result) :
                    batch.result[i].type =
                        IF batch.result[i].id \in batch.messages
                        THEN "PartialPlayer" ELSE "Player"

\* 21 players and the id 0 were asked for with return_private, in two
\* requests; the first profile asked for is private and is the first of the
\* result, as a PartialPlayer.
C30_Witness ==
    /\ batch.op = "get_players"
    /\ batch.pc = "returned"
    /\ batch.return_private
    /\ 0 \in Distinct
    /\ Len(batch.input) > Cardinality(Distinct)
    /\ Len(batch.sent) = 2
    /\ Len(batch.result) = 21
    /\ batch.result[1].type = "PartialPlayer"
    /\ batch.result[2].type = "Player"

\* C31: every await of an Expandable object makes one upgrade attempt and
\* leaves the object as it was: an await of an object that is not a private
\* player sends one entity request, so n awaits send n; the NotFound or
\* Private the upgrade raises is what the awaiting caller gets; and an
\* await of a PartialPlayer whose private flag is set or whose id is 0
\* raises Private and sends nothing.
C31_Step == partial # NoPartial => partial' = partial
C31_PrivatePlayer == partial.class = "PartialPlayer" /\ (partial.private \/ partial.id = 0)
C31_Each ==
    \A n \in 1..Len(awaits) :
        /\ C31_PrivatePlayer =>
              awaits[n].sent = 0 /\ awaits[n].pc = "done" /\ awaits[n].got = "Private"
        /\ ~C31_PrivatePlayer => awaits[n].sent = 1
        /\ awaits[n].pc = "done" =>
              /\ awaits[n].got = awaits[n].expanded
              /\ awaits[n].answer = "empty" => awaits[n].got = "NotFound"
              /\ (partial.class = "PartialPlayer" /\ awaits[n].answer = "message") =>
                    awaits[n].got = "Private"
C31_OneUpgradePerAwait == [][C31_Step]_vars /\ []C31_Each

\* A player with id 0 and no private flag was awaited three times.
C31_Witness ==
    /\ partial = [class |-> "PartialPlayer", id |-> 0, private |-> FALSE]
    /\ Len(awaits) = 3
    /\ \A n \in 1..3 : awaits[n].got = "Private" /\ awaits[n].sent = 0

\* C32: every match get_matches_for_queue yields entered between start and
\* end, both included, and the matches come by rising time of entry, by
\* falling time when reverse is set, the upstream answering every window
\* with the matches that entered in it; a call with end < start yields
\* nothing and sends no request.
C32_InRangeAndOrdered ==
    queue_call.op = "get_matches_for_queue" =>
        /\ \A i \in 1..Len(queue_call.yielded) :
              /\ queue_call.start <= queue_call.yielded[i].stamp
              /\ queue_call.yielded[i].stamp <= queue_call.end
        /\ \A i, j \in 1..Len(queue_call.yielded) :
              i < j => IF queue_call.reverse
                       THEN queue_call.yielded[i].stamp >= queue_call.yielded[j].stamp
                       ELSE queue_call.yielded[i].stamp <= queue_call.yielded[j].stamp
        /\ queue_call.end < queue_call.start =>
              queue_call.yielded = <<>> /\ queue_call.requests = 0

\* A reverse call over several windows has ended with matches of several
\* times, two of them of the same window, and left a known match out.
C32_Witness ==
    /\ queue_call.op = "get_matches_for_queue"
    /\ queue_call.pc = "done"
    /\ queue_call.reverse
    /\ queue_call.at > 3
    /\ Len(queue_call.yielded) >= 4
    /\ \E i \in 1..Len(queue_call.yielded) : queue_call.yielded[i].id = 7
    /\ \E i \in 1..Len(queue_call.yielded) : queue_call.yielded[i].id = 1
    /\ \A i \in 1..Len(queue_call.yielded) : queue_call.yielded[i].id # 11

\* The rounded times of a call.
RoundedStart == (queue_call.start \div 10) * 10
RoundedEnd == ((queue_call.end + 9) \div 10) * 10
Dates == queue_call.dates
\* A window of the length given that holds the window yielded and lies in
\* the rounded range.
Wider(window, td) ==
    LET from == (Begin(window) \div td) * td
    IN Length(window) < td /\ RoundedStart <= from /\ from + td <= RoundedEnd

\* C34: in both directions _date_gen uses the longest window: it yields no
\* ten minute slot of a round hour that lies in the rounded range, and no
\* hour or slot of a day, midnight to midnight, that lies in the rounded
\* range.
C34_LongestWindow ==
    queue_call.op = "_date_gen" =>
        \A i \in 1..Len(Dates) : ~Wider(Dates[i], ONE_HOUR) /\ ~Wider(Dates[i], ONE_DAY)

\* The forward direction does use the longest window.
C34_ForwardLongest ==
    (queue_call.op = "_date_gen" /\ ~queue_call.reverse) =>
        \A i \in 1..Len(Dates) : ~Wider(Dates[i], ONE_HOUR) /\ ~Wider(Dates[i], ONE_DAY)

\* C36: the windows _date_gen yields are whole days, hours and ten minute
\* slots that follow one another without gap or overlap, forwards from the
\* rounded start to the rounded end, backwards from the rounded end to the
\* rounded start when reverse is set; nothing is yielded when the rounded
\* start is not before the rounded end.
C36_WindowsTile ==
    queue_call.op = "_date_gen" =>
        /\ RoundedStart >= RoundedEnd => Dates = <<>>
        /\ RoundedStart < RoundedEnd =>
              /\ Dates # <<>>
              /\ \A i \in 1..Len(Dates) :
                    /\ Dates[i].hour \in (0 - 1)..23
                    /\ Dates[i].minute \in {0 - 1, 0, 10, 20, 30, 40, 50}
                    /\ Dates[i].hour < 0 => Dates[i].minute < 0
              /\ IF queue_call.reverse
                 THEN /\ Begin(Dates[1]) + Length(Dates[1]) = RoundedEnd
                      /\ \A i \in 1..(Len(Dates) - 1) :
                            Begin(Dates[i + 1]) + Length(Dates[i + 1]) = Begin(Dates[i])
                      /\ Begin(Dates[Len(Dates)]) = RoundedStart
                 ELSE /\ Begin(Dates[1]) = RoundedStart
                      /\ \A i \in 1..(Len(Dates) - 1) :
                            Begin(Dates[i + 1]) = Begin(Dates[i]) + Length(Dates[i])
                      /\ Begin(Dates[Len(Dates)]) + Length(Dates[Len(Dates)]) = RoundedEnd

\* A reverse run from a time off the ten minutes has yielded slots, hours
\* and a day.
C36_Witness ==
    /\ queue_call.op = "_date_gen"
    /\ queue_call.reverse
    /\ queue_call.start = 135
    /\ queue_call.end = 2900
    /\ \E i \in 1..Len(Dates) : Length(Dates[i]) = ONE_DAY
    /\ \E i \in 1..Len(Dates) : Length(Dates[i]) = ONE_HOUR
    /\ \E i \in 1..Len(Dates) : Length(Dates[i]) = TEN_MINUTES

\* C33: on a finished enum class, deleting a member, reassigning a member,
\* assigning another class attribute, calling the class with a name and a
\* value, and assigning the name or the value of a member each raise
\* AttributeError or TypeError, and leave the members and the name and
\* value mappings as they were.
C33_Step == enum_class.defined => enum_class' = enum_class
C33_Raised ==
    enum_op.op # "none" =>
        /\ enum_op.raised = IF enum_op.op = "call" THEN "TypeError" ELSE "AttributeError"
        /\ enum_op.returned = "none"
C33_Frozen == [][C33_Step]_vars /\ []C33_Raised

\* A class with an alias and a spaced name has been through three
\* attempts, the last one the creation of a member, and still has its three
\* members and four names.
C33_Witness ==
    /\ enum_class.defined
    /\ enum_ops = 3
    /\ enum_op.op = "call"
    /\ enum_op.raised = "TypeError"
    /\ Len(enum_class.member_mapping) = 3
    /\ Len(enum_class.name_mapping) = 4
    /\ HasKey(enum_class.name_mapping, <<"a", " ", "b">>)

\* The items of a list, as a set.
ItemsOf(list) == {list[i] : i \in 1..Len(list)}

\* C35: when the response lists the active items before the others,
\* get_bounty returns the items flagged active, each once, as its first
\* list and the other items, each once, as its second; also when every item
\* is active and when none is.
C35_ActiveAndPast ==
    bounty.pc = "returned" =>
        /\ ItemsOf(bounty.active) = {item \in ItemsOf(bounty.response) : item.active}
        /\ Len(bounty.active) = Cardinality(ItemsOf(bounty.active))
        /\ ItemsOf(bounty.past) = {item \in ItemsOf(bounty.response) : ~item.active}
        /\ Len(bounty.past) = Cardinality(ItemsOf(bounty.past))

\* The split is right whenever an item of the response is not active.
C35_RightWithAnInactive ==
    (bounty.pc = "returned" /\ \E item \in ItemsOf(bounty.response) : ~item.active) =>
        /\ ItemsOf(bounty.active) = {item \in ItemsOf(bounty.response) : item.active}
        /\ ItemsOf(bounty.past) = {item \in ItemsOf(bounty.response) : ~item.active}

\* C37: a _cache_object call that passes an id the primary index lacks
\* returns an object that has this id, whatever name it passes and whatever
\* _cache_object calls came before.
C37_ReturnsTheIdAsked ==
    \A i \in 1..Len(co_calls) :
        (co_calls[i].id # NoId /\ DictGet(id_lookup, co_calls[i].id) = NoObj) =>
            objs[co_calls[i].ret].id = co_calls[i].id

\* The id asked for is returned whenever no name is passed along.
C37_RightWithoutName ==
    \A i \in 1..Len(co_calls) :
        (/\ co_calls[i].id # NoId
         /\ co_calls[i].name = NoName
         /\ DictGet(id_lookup, co_calls[i].id) = NoObj) =>
            objs[co_calls[i].ret].id = co_calls[i].id

\* endpoint.py:369-386, 404-417   a request of the call of c was answered with
\* "Invalid session id." and the request of the attempt after it is built: it
\* is in flight, or it was the second request and its response is returned.
Retried(c) ==
    /\ Authenticated(c)
    /\ frame[c, 0].invalids = 1
    /\ \/ frame[c, 0].pc = "http" /\ frame[c, 0].last = "invalid"
       \/ frame[c, 0].pc = "returned" /\ frame[c, 0].sent = 2

\* C38: when the requests of several concurrent calls carried the same session
\* token and each was answered with an invalid-session response, the session is
\* created once more and no oftener, and the retries of all those calls carry
\* that one new token, in whatever order the responses arrive.
C38_OneRenewalForAll ==
    \A c, d \in Callers :
        ( /\ c # d
          /\ now < SESSION_LIFETIME
          /\ Retried(c)
          /\ Retried(d)
          /\ frame[c, 0].bad = frame[d, 0].bad ) =>
            /\ frame[c, 0].token = frame[d, 0].token
            /\ issued = frame[c, 0].bad + 1

\* What request does in every order of the responses: a retry never carries
\* the token that was answered as invalid, but a newer one.
C38_RetryWithNewerToken ==
    \A c \in Callers :
        (Retried(c) /\ now < SESSION_LIFETIME) =>
            frame[c, 0].token > frame[c, 0].bad

\* Two calls sent with one token, both answered as invalid, both retried with
\* the token of one further session.
C38_OneRenewalReached ==
    /\ now < SESSION_LIFETIME
    /\ \A c \in Callers : Retried(c) /\ frame[c, 0].bad = 1 /\ frame[c, 0].token = 2
    /\ issued = 2

\* endpoint.py:369-378   the frames that are inside the lock block.
InLockBlock(c) == frame[c, 0].pc \in {"check", "creating"}

\* endpoint.py:355-368   the request of the nested call goes out without a
\* session step: the step that takes the frame of depth 1 from the head of the
\* loop sends its request and touches neither the lock nor its queue.
NestedSkipsLock(c) ==
    (frame[c, 1].pc = "attempt" /\ frame'[c, 1] # frame[c, 1]) =>
        /\ frame[c, 1].method \in {"createsession", "ping"}
        /\ frame'[c, 1].pc = "http"
        /\ session_lock' = session_lock
        /\ waiters' = waiters

\* C39: the session lock never deadlocks a caller. The createsession request
\* made with the lock held is sent without reaching for the lock, the lock is
\* held by a task exactly while that task is inside the lock block, whatever
\* way it left it, the holder leaves the block in the end, and every call that
\* waits for the lock gets it in the end.
C39_NoDeadlock ==
    /\ [][\A c \in Callers : NestedSkipsLock(c)]_vars
    /\ [](\A c \in Callers : (session_lock = c) <=> InLockBlock(c))
    /\ \A c \in Callers :
            /\ (session_lock = c) ~> (session_lock # c)
            /\ (frame[c, 0].pc = "wait") ~> (session_lock = c)

\* A call waits for the lock while its holder has the createsession request
\* in flight.
C39_Witness ==
    \E c, d \in Callers :
        /\ session_lock = c
        /\ frame[c, 0].pc = "creating"
        /\ frame[c, 1].pc = "http"
        /\ frame[c, 1].method = "createsession"
        /\ frame[d, 0].pc = "wait"
        /\ Authenticated(d)
        /\ waiters = <<d>>

\* The tasks that are in the block of the lock of key k or queued for it.
Using(k) == {t \in WeakTasks : weak_task[t].key = k /\ weak_task[t].pc \in {"block", "queued"}}

\* utils.py:1293-1301   a lookup by task t: of a missing key, it gives a lock
\* made just now and leaves it stored under the key; of a key whose lock some
\* task is using, it gives that lock.
LookupGivesTheLock(t) ==
    (weak_task[t].pc = "idle" /\ weak_task'[t].pc # "idle") =>
        LET k == weak_task'[t].key
            got == weak_task'[t].ref
        IN  /\ locks'[k] = got
            /\ locks[k] = 0 =>
                  /\ got = locks_made + 1
                  /\ locks_made' = got
                  /\ lock_objs[got] = FreshLock
                  /\ \A u \in WeakTasks : weak_task[u].ref # got
            /\ \A u \in Using(k) : weak_task[u].ref = got

\* No two tasks are in the block of one key, and all the tasks using the lock
\* of a key refer to the one lock the map holds under that key.
OneLockPerKey ==
    \A k \in WeakKeys :
        /\ Cardinality({t \in Using(k) : weak_task[t].pc = "block"}) <= 1
        /\ \A t \in Using(k) : weak_task[t].ref = locks[k]

\* C40: in the weak-valued lock map a lookup of a missing key creates, stores
\* and returns a new lock; while a task holds the lock of a key or waits for
\* it, every lookup of the key returns that same lock, though locks nothing
\* refers to may vanish at any time; so no two tasks hold the lock of one key
\* at the same time.
C40_SameLockWhileUsed ==
    /\ [][\A t \in WeakTasks : LookupGivesTheLock(t)]_vars
    /\ []OneLockPerKey

\* The first lock of "server_status" has vanished; one task is in the block of
\* the second and another, having looked the key up meanwhile, is queued on it.
C40_Witness ==
    \E t, u \in WeakTasks :
        /\ locks["server_status"] = 2
        /\ weak_task[t] = [pc |-> "block", key |-> "server_status", ref |-> 2, fresh |-> TRUE]
        /\ weak_task[u] = [pc |-> "queued", key |-> "server_status", ref |-> 2, fresh |-> FALSE]
        /\ lock_objs[2] = [locked |-> TRUE, waiters |-> <<u>>]

====
